---- MODULE Spec2Model ----
(***************************************************************************)
(* A model of the notebooks of docs/sphinx: the quantum kernels            *)
(* (teleportation, Bernstein-Vazirani and its oracle, the mid-circuit      *)
(* measurement kernel), the classical query strategy the Bernstein-        *)
(* Vazirani notebook describes, and batched_gradient_function.             *)
(*                                                                         *)
(* Amplitudes are Gaussian integers <<re, im>>.  A state vector is kept up *)
(* to a common positive real factor: the vector v stands for v / ||v||.    *)
(* The Hadamard gate is applied without its 1/sqrt(2), and the variable    *)
(* den carries the squared norm the vector would have had no measurement   *)
(* projected it, so Norm(amps) / den is the probability of the run so far. *)
(* Qubit q is bit q of a basis index (qubit 0 is the least significant     *)
(* bit), the order partial_trace assumes.                                  *)
(***************************************************************************)
EXTENDS Integers, Sequences, FiniteSets, TLC

\* ------------------------------------------------------------------ bounds

\* The real and imaginary part of an input amplitude range over -MaxAmp..MaxAmp.
MaxAmp == 1

\* The secret string of Bernstein-Vazirani has 1..MaxN bits.
MaxN == 3

\* batched_gradient_function gets 1..MaxParams parameters, each in
\* 0..MaxParamValue, and a shift epsilon in 1..MaxEpsilon.
MaxParams == 3
MaxParamValue == 1
MaxEpsilon == 2
MaxEvals == 2
MaxFiles == 2
ManyFiles == 256

\* The longest argument list the nvqc script is given.
MaxArgs == 4

\* exit n ends a process with the status n modulo 256.
ExitModulus == 256

\* ------------------------------------------------- Gaussian integers, bits

CAdd(a, b) == <<a[1] + b[1], a[2] + b[2]>>
CSub(a, b) == <<a[1] - b[1], a[2] - b[2]>>
CNeg(a) == <<-a[1], -a[2]>>
CMul(a, b) == <<a[1] * b[1] - a[2] * b[2], a[1] * b[2] + a[2] * b[1]>>
CConj(a) == <<a[1], -a[2]>>
CAbs2(a) == a[1] * a[1] + a[2] * a[2]
CScale(k, a) == <<k * a[1], k * a[2]>>
CZero == <<0, 0>>
COne == <<1, 0>>

RECURSIVE Pow2(_)
Pow2(k) == IF k = 0 THEN 1 ELSE 2 * Pow2(k - 1)

Bit(i, q) == (i \div Pow2(q)) % 2
Flip(i, q) == IF Bit(i, q) = 0 THEN i + Pow2(q) ELSE i - Pow2(q)

RECURSIVE SumRange(_, _, _)
\* f[lo] + ... + f[hi], by halves.
SumRange(f, lo, hi) ==
  IF lo > hi THEN 0
  ELSE IF lo = hi THEN f[lo]
  ELSE LET mid == (lo + hi) \div 2
       IN SumRange(f, lo, mid) + SumRange(f, mid + 1, hi)

RECURSIVE CSumRange(_, _, _)
CSumRange(f, lo, hi) ==
  IF lo > hi THEN CZero
  ELSE IF lo = hi THEN f[lo]
  ELSE LET mid == (lo + hi) \div 2
       IN CAdd(CSumRange(f, lo, mid), CSumRange(f, mid + 1, hi))

\* f[0] + ... + f[k]
SumTo(f, k) == SumRange(f, 0, k)
CSumTo(f, k) == CSumRange(f, 0, k)

Dim(sv) == Cardinality(DOMAIN sv)
Norm(sv) == SumTo([i \in DOMAIN sv |-> CAbs2(sv[i])], Dim(sv) - 1)

\* cudaq.qvector(n): n qubits, all in |0>.
qvector(n) == [i \in 0..(Pow2(n) - 1) |-> IF i = 0 THEN COne ELSE CZero]

\* ------------------------------------------------------------------- gates

\* H|0> = |0> + |1>, H|1> = |0> - |1> (times 1/sqrt(2), carried by den).
h(sv, q) ==
  [i \in DOMAIN sv |->
     IF Bit(i, q) = 0 THEN CAdd(sv[i], sv[Flip(i, q)])
     ELSE CSub(sv[Flip(i, q)], sv[i])]

\* X swaps |0> and |1>.
x(sv, q) == [i \in DOMAIN sv |-> sv[Flip(i, q)]]

\* Z negates the amplitude of |1>.
z(sv, q) == [i \in DOMAIN sv |-> IF Bit(i, q) = 1 THEN CNeg(sv[i]) ELSE sv[i]]

\* CX (x.ctrl): X on the target where the control is 1.
cx(sv, c, t) ==
  [i \in DOMAIN sv |-> IF Bit(i, c) = 1 THEN sv[Flip(i, t)] ELSE sv[i]]

\* mz with outcome m: the state collapses onto the terms where qubit q is m.
Collapse(sv, q, m) ==
  [i \in DOMAIN sv |-> IF Bit(i, q) = m THEN sv[i] ELSE CZero]

\* The outcomes mz(q) can give: those of non-zero probability.
Outcomes(sv, q) == {m \in {0, 1} : Norm(Collapse(sv, q, m)) > 0}

\* rx, ry, rz on a qubit in |0>: it is left in an arbitrary state
\* a|0> + b|1>.
PreparePsi(sv, q, a, b) ==
  [i \in DOMAIN sv |->
     IF Bit(i, q) = 0 THEN CMul(a, sv[i]) ELSE CMul(b, sv[Flip(i, q)])]

\* ----------------------------------------------------------- partial_trace

\* The bit of basis index i that numpy axis a of state_vector.reshape([2]*n)
\* selects: axis 0 is the most significant bit.
AxisBit(i, n, a) == Bit(i, n - 1 - a)

RECURSIVE AxesIndex(_, _, _)
\* The index the bits of i at the axes in the sequence axes form, C order.
AxesIndex(i, n, axes) ==
  IF axes = <<>> THEN 0
  ELSE 2 * AxesIndex(i, n, SubSeq(axes, 1, Len(axes) - 1))
         + AxisBit(i, n, axes[Len(axes)])

RECURSIVE SortedSeq(_)
SortedSeq(S) ==
  IF S = {} THEN <<>>
  ELSE LET m == CHOOSE e \in S : \A o \in S : e <= o
       IN <<m>> \o SortedSeq(S \ {m})

\* partial_trace(state_vector, trace_systems) for a vector of 2^n entries:
\* the density matrix of the qubits not in trace_systems.
partial_trace(state_vector, n, trace_systems) ==
  LET axes == {n - 1 - s : s \in trace_systems}
      kept == SortedSeq((0..(n - 1)) \ axes)
      traced == SortedSeq(axes)
      d == Pow2(Len(kept))
      nt == Pow2(Len(traced))
      \* the entry of state_vector.reshape([2]*n) at kept index r, traced index t
      rho(r, t) ==
        state_vector[CHOOSE i \in DOMAIN state_vector :
                       AxesIndex(i, n, kept) = r /\ AxesIndex(i, n, traced) = t]
      \* np.tensordot(rho, rho.conj(), axes=(trace_systems, trace_systems))
      dot(r, c) ==
        CSumTo([t \in 0..(nt - 1) |-> CMul(rho(r, t), CConj(rho(c, t)))], nt - 1)
  IN [r \in 0..(d - 1) |-> [c \in 0..(d - 1) |-> dot(r, c)]]

\* The trace of a density matrix (a real number).
Trace(rho) == SumTo([r \in DOMAIN rho |-> rho[r][r][1]], Cardinality(DOMAIN rho) - 1)

\* np.allclose(rho1, rho2) for the density matrices of two vectors kept up to a
\* positive factor: rho1 / tr(rho1) = rho2 / tr(rho2), entry by entry.
allclose(rho1, rho2) ==
  \A r \in DOMAIN rho1 : \A c \in DOMAIN rho1 :
     CScale(Trace(rho2), rho1[r][c]) = CScale(Trace(rho1), rho2[r][c])

\* ------------------------------------------------------------------- state

VARIABLES
  kernel,         \* the kernel (or procedure) that runs
  pc,             \* the statement it is at
  amps,           \* the state vector of the qubits
  den,            \* the squared norm amps has when no measurement has projected
  ops,            \* the gates applied so far, in order
  alpha, beta,    \* teleportation: the input state psi = alpha|0> + beta|1>
  m1, m2,         \* teleportation: the measurement results
  psi_0, psi_4,   \* teleportation: the saved state vectors
  b0,             \* mid-circuit kernel: the result of mz(q[0])
  secret_string,  \* Bernstein-Vazirani: the secret bits
  index,          \* oracle: the loop index
  oracle_calls,   \* how many times the oracle kernel was called
  basis_in,       \* oracle alone: the register value and auxiliary bit it is given
  result,         \* the bits an unnamed mz(...) measured
  queries         \* classical case: the queries made, each <<x, f(x)>>

VARIABLES
  gpc,            \* batched_gradient_function: the statement it is at
  parameters,     \* its argument parameters
  epsilon,        \* its argument epsilon
  x_tile,         \* its local x
  xplus, xminus,  \* the shifted parameters
  g_plus, g_minus,\* the futures of the plus and minus shifts
  gradient,       \* the list it returns
  qpu_counter,
  loop_i,         \* the loop variable i
  calls,          \* the observe_async calls issued, in order
  gets            \* the futures get() was called on, in order

VARIABLES
  vpc,              \* the VQE procedure: the statement it is at
  initial_params,   \* the global initial_params
  gradient_default, \* the global gradient, the default of objective_function
  parameter_vector, \* the argument of the running objective_function call
  cost,             \* its local cost
  gradient_vector,  \* its local gradient_vector
  nfev              \* the objective_function calls minimize has made

VARIABLES
  inputs,           \* the inputs context of the workflow run
  github            \* the github context: ref_type, ref_name, repository_owner

VARIABLES
  matrix,           \* validation job: matrix.os_image, matrix.pip_install_flags
  docs_tree,        \* the files of docs/sphinx in the checked-out repository
  failing,          \* the files of docs_tree whose execution fails
  backend_tests,    \* the files of /tmp/tests/backends
  vstep,            \* the step the job is at
  vat,              \* the position in that step's script
  outcome,          \* the outcome of every step
  cancelled,        \* the job was cancelled
  base_image, distr,\* locals of 'Install wheel in clean environment'
  imported,         \* $imported of that step: "true" or "false" once set
  validation_out,   \* the file /tmp/validation.out
  step_summary,     \* the lines appended to $GITHUB_STEP_SUMMARY
  annotations,      \* the ::error annotations written
  exit_status,      \* the exit status of every step's script
  containers,       \* the running containers
  found,            \* the files the for loop has still to go through
  status_sum,
  executed,         \* the files executed in a container, in order
  backend_todo,     \* the backend test files the for loop has still to run
  pytest_status,
  backend_run       \* the backend test files run, in order

VARIABLES
  jobs,             \* the result of every job of the workflow
  vjobs,            \* the result of every job of the validation matrix
  bstep,            \* build_wheel: the step the job is at
  restore,          \* build_wheel: steps.restore.outcome
  archive_exists,   \* build_wheel: the file inputs.devdeps_archive exists
  prereqs,          \* build_wheel: steps.prereqs.outputs
  build_annotations,\* build_wheel: the ::error annotations written
  build_exit,       \* build_wheel: the exit status of 'Load prerequisites'
  wheels,           \* build_wheel: the files in /tmp/wheels
  build_args,       \* build_wheel: the build-args of the wheel build
  artifacts,        \* the artifacts uploaded: name and files
  test_config,      \* create_test_config: outputs.json
  downloaded,       \* the artifact name each validation job downloads
  staging_info      \* staging: the build info was uploaded

VARIABLES
  npc,              \* the nvqc target configuration script: where it is
  argv,             \* the arguments the script is given
  positional,       \* "$@": the arguments not yet shifted away
  PLATFORM_EXTRA_ARGS,
  target_config     \* the other variables the script sets

VARIABLES
  dpc,              \* the docker build of the validation image: the instruction it is at
  docker_args,      \* the ARGs of the build, defaults applied
  pip_installs      \* the pip install commands run, in order

qVars == <<kernel, pc, amps, den, ops>>
teleVars == <<alpha, beta, m1, m2, psi_0, psi_4>>
bvVars == <<secret_string, index, oracle_calls, basis_in>>
kernelVars == <<qVars, teleVars, bvVars, b0, result, queries>>
gradVars == <<gpc, parameters, epsilon, x_tile, xplus, xminus, g_plus, g_minus,
              gradient, qpu_counter, loop_i, calls, gets>>
vqeVars == <<vpc, initial_params, gradient_default, parameter_vector, cost,
             gradient_vector, nfev>>
ctxVars == <<inputs, github>>
valInputs == <<matrix, docs_tree, failing, backend_tests>>
valVars == <<valInputs, vstep, vat, outcome, cancelled, base_image, distr, imported,
             validation_out, step_summary, annotations, exit_status, containers,
             found, status_sum, executed, backend_todo, pytest_status, backend_run>>
wfVars == <<jobs, vjobs, bstep, restore, archive_exists, prereqs, build_annotations,
            build_exit, wheels, build_args, artifacts, test_config, downloaded,
            staging_info>>
ciVars == <<ctxVars, valVars, wfVars>>
nvqcVars == <<npc, argv, positional, PLATFORM_EXTRA_ARGS, target_config>>
dockerVars == <<dpc, docker_args, pip_installs>>
scriptVars == <<nvqcVars, dockerVars>>
nonCiVars == <<kernelVars, gradVars, vqeVars, scriptVars>>
vars == <<kernelVars, gradVars, vqeVars, ciVars, scriptVars>>

Amp == {<<re, im>> : re \in (-MaxAmp)..MaxAmp, im \in (-MaxAmp)..MaxAmp}

None == "none"

\* What the variables of a kernel hold while another kernel runs.
TeleIdle ==
  /\ alpha = None /\ beta = None /\ m1 = None /\ m2 = None
  /\ psi_0 = None /\ psi_4 = None

BvIdle ==
  /\ secret_string = <<>> /\ index = 0 /\ oracle_calls = 0 /\ basis_in = None

\* ----------------------------------------------------------- teleportation
\* pc runs through the first definition of the kernel (psi0_*), whose state
\* is saved as psi_0, then through the second (tp_*), saved as psi_4.

TeleportInit ==
  /\ kernel = "teleportation"
  /\ pc = "psi0_rot"
  /\ amps = qvector(3)
  /\ den = 1
  /\ ops = <<>>
  /\ alpha \in Amp
  /\ beta \in Amp
  /\ <<alpha, beta>> # <<CZero, CZero>>
  /\ m1 = None
  /\ m2 = None
  /\ psi_0 = None
  /\ psi_4 = None
  /\ BvIdle
  /\ b0 = None
  /\ result = <<>>
  /\ queries = <<>>

\* rx(3.14, qubits[0]); ry(2.71, qubits[0]); rz(6.62, qubits[0])
TeleportRotate ==
  /\ kernel = "teleportation"
  /\ pc \in {"psi0_rot", "tp_rot"}
  /\ amps' = PreparePsi(amps, 0, alpha, beta)
  /\ den' = den * (CAbs2(alpha) + CAbs2(beta))
  /\ ops' = Append(ops, <<"rot", 0>>)
  /\ pc' = IF pc = "psi0_rot" THEN "psi0_h1" ELSE "tp_h1"
  /\ UNCHANGED <<gradVars, vqeVars, ciVars, scriptVars, kernel, teleVars, bvVars, b0, result, queries>>

\* h(qubits[1])
TeleportH1 ==
  /\ kernel = "teleportation"
  /\ pc \in {"psi0_h1", "tp_h1"}
  /\ amps' = h(amps, 1)
  /\ den' = 2 * den
  /\ ops' = Append(ops, <<"h", 1>>)
  /\ pc' = IF pc = "psi0_h1" THEN "psi0_cx12" ELSE "tp_cx12"
  /\ UNCHANGED <<gradVars, vqeVars, ciVars, scriptVars, kernel, teleVars, bvVars, b0, result, queries>>

\* cx(qubits[1], qubits[2])
TeleportCx12 ==
  /\ kernel = "teleportation"
  /\ pc \in {"psi0_cx12", "tp_cx12"}
  /\ amps' = cx(amps, 1, 2)
  /\ ops' = Append(ops, <<"cx", 1, 2>>)
  /\ pc' = IF pc = "psi0_cx12" THEN "psi0_get" ELSE "tp_cx01"
  /\ UNCHANGED <<gradVars, vqeVars, ciVars, scriptVars, kernel, den, teleVars, bvVars, b0, result, queries>>

\* psi_0 = cudaq.get_state(teleportation), then the second definition of the
\* kernel starts on fresh qubits.
GetPsi0 ==
  /\ kernel = "teleportation"
  /\ pc = "psi0_get"
  /\ psi_0' = amps
  /\ amps' = qvector(3)
  /\ den' = 1
  /\ ops' = <<>>
  /\ pc' = "tp_rot"
  /\ UNCHANGED <<gradVars, vqeVars, ciVars, scriptVars, kernel, alpha, beta, m1, m2, psi_4, bvVars, b0, result, queries>>

\* Psi1: cx(qubits[0], qubits[1])
TeleportCx01 ==
  /\ kernel = "teleportation"
  /\ pc = "tp_cx01"
  /\ amps' = cx(amps, 0, 1)
  /\ ops' = Append(ops, <<"cx", 0, 1>>)
  /\ pc' = "tp_h0"
  /\ UNCHANGED <<gradVars, vqeVars, ciVars, scriptVars, kernel, den, teleVars, bvVars, b0, result, queries>>

\* A slip in Psi2: the Hadamard on qubits[1] instead of qubits[0].
TeleportH0_OnQubit1 ==
  /\ kernel = "teleportation"
  /\ pc = "tp_h0"
  /\ amps' = h(amps, 1)
  /\ den' = 2 * den
  /\ ops' = Append(ops, <<"h", 1>>)
  /\ pc' = "tp_m1"
  /\ UNCHANGED <<gradVars, vqeVars, ciVars, scriptVars, kernel, teleVars, bvVars, b0, result, queries>>

\* Psi2: h(qubits[0])
TeleportH0 ==
  /\ kernel = "teleportation"
  /\ pc = "tp_h0"
  /\ amps' = h(amps, 0)
  /\ den' = 2 * den
  /\ ops' = Append(ops, <<"h", 0>>)
  /\ pc' = "tp_m1"
  /\ UNCHANGED <<gradVars, vqeVars, ciVars, scriptVars, kernel, teleVars, bvVars, b0, result, queries>>

\* Psi3: m1 = mz(qubits[0])
MeasureM1 ==
  /\ kernel = "teleportation"
  /\ pc = "tp_m1"
  /\ \E m \in Outcomes(amps, 0) :
       /\ m1' = m
       /\ amps' = Collapse(amps, 0, m)
  /\ ops' = Append(ops, <<"mz", 0>>)
  /\ pc' = "tp_m2"
  /\ UNCHANGED <<gradVars, vqeVars, ciVars, scriptVars, kernel, den, alpha, beta, m2, psi_0, psi_4, bvVars, b0, result, queries>>

\* m2 = mz(qubits[1])
MeasureM2 ==
  /\ kernel = "teleportation"
  /\ pc = "tp_m2"
  /\ \E m \in Outcomes(amps, 1) :
       /\ m2' = m
       /\ amps' = Collapse(amps, 1, m)
  /\ ops' = Append(ops, <<"mz", 1>>)
  /\ pc' = "tp_if_m1"
  /\ UNCHANGED <<gradVars, vqeVars, ciVars, scriptVars, kernel, den, alpha, beta, m1, psi_0, psi_4, bvVars, b0, result, queries>>

\* A slip in Psi4: the z conditioned on m2 instead of m1.
CorrectZ_OnM2 ==
  /\ kernel = "teleportation"
  /\ pc = "tp_if_m1"
  /\ amps' = IF m2 = 1 THEN z(amps, 2) ELSE amps
  /\ ops' = IF m2 = 1 THEN Append(ops, <<"z", 2>>) ELSE ops
  /\ pc' = "tp_if_m2"
  /\ UNCHANGED <<gradVars, vqeVars, ciVars, scriptVars, kernel, den, teleVars, bvVars, b0, result, queries>>

\* Psi4: if m1 == 1: z(qubits[2])
CorrectZ ==
  /\ kernel = "teleportation"
  /\ pc = "tp_if_m1"
  /\ amps' = IF m1 = 1 THEN z(amps, 2) ELSE amps
  /\ ops' = IF m1 = 1 THEN Append(ops, <<"z", 2>>) ELSE ops
  /\ pc' = "tp_if_m2"
  /\ UNCHANGED <<gradVars, vqeVars, ciVars, scriptVars, kernel, den, teleVars, bvVars, b0, result, queries>>

\* A slip in Psi4: the x on qubits[0] instead of qubits[2].
CorrectX_OnQubit0 ==
  /\ kernel = "teleportation"
  /\ pc = "tp_if_m2"
  /\ amps' = IF m2 = 1 THEN x(amps, 0) ELSE amps
  /\ ops' = IF m2 = 1 THEN Append(ops, <<"x", 0>>) ELSE ops
  /\ pc' = "tp_get"
  /\ UNCHANGED <<gradVars, vqeVars, ciVars, scriptVars, kernel, den, teleVars, bvVars, b0, result, queries>>

\* if m2 == 1: x(qubits[2])
CorrectX ==
  /\ kernel = "teleportation"
  /\ pc = "tp_if_m2"
  /\ amps' = IF m2 = 1 THEN x(amps, 2) ELSE amps
  /\ ops' = IF m2 = 1 THEN Append(ops, <<"x", 2>>) ELSE ops
  /\ pc' = "tp_get"
  /\ UNCHANGED <<gradVars, vqeVars, ciVars, scriptVars, kernel, den, teleVars, bvVars, b0, result, queries>>

\* psi_4 = cudaq.get_state(teleportation)
GetPsi4 ==
  /\ kernel = "teleportation"
  /\ pc = "tp_get"
  /\ psi_4' = amps
  /\ pc' = "done"
  /\ UNCHANGED <<gradVars, vqeVars, ciVars, scriptVars, kernel, amps, den, ops, alpha, beta, m1, m2, psi_0, bvVars, b0, result, queries>>

TeleportNext ==
  \/ TeleportRotate
  \/ TeleportH1
  \/ TeleportCx12
  \/ GetPsi0
  \/ TeleportCx01
  \/ TeleportH0
  \/ MeasureM1
  \/ MeasureM2
  \/ CorrectZ
  \/ CorrectX
  \/ GetPsi4

\* ------------------------------------------------------ Bernstein-Vazirani
\* The register is qubits 0..n-1 and the auxiliary qubit is qubit n, the order
\* of allocation.

BitStrings(n) == [1..n -> {0, 1}]

Secrets == UNION {BitStrings(n) : n \in 1..MaxN}

\* f(x) = x . s (mod 2) = (x_1 s_1 + ... + x_n s_n) (mod 2), with s indexed
\* from its other end: a slip.
f_Reversed(xs, s) ==
  SumTo([k \in 0..(Len(s) - 1) |-> xs[k + 1] * s[Len(s) - k]], Len(s) - 1) % 2

\* f(x) = x . s (mod 2) = (x_1 s_1 + ... + x_n s_n) (mod 2)
f(xs, s) ==
  SumTo([k \in 0..(Len(s) - 1) |-> xs[k + 1] * s[k + 1]], Len(s) - 1) % 2

RECURSIVE hAll(_, _)
\* h(qubits): a Hadamard on every qubit 0..n-1 of the register.
hAll(sv, n) == IF n = 0 THEN sv ELSE h(hAll(sv, n - 1), n - 1)

RECURSIVE mzAll(_, _)
\* mz(qubits) giving the bits r: qubit i collapses onto r[i + 1].
mzAll(sv, r) ==
  IF r = <<>> THEN sv
  ELSE Collapse(mzAll(sv, SubSeq(r, 1, Len(r) - 1)), Len(r) - 1, r[Len(r)])

\* The basis state |i> of n qubits.
BasisState(n, i) == [k \in 0..(Pow2(n) - 1) |-> IF k = i THEN COne ELSE CZero]

BvInit ==
  /\ kernel = "bernstein_vazirani"
  /\ pc = "bv_x_aux"
  /\ secret_string \in Secrets
  /\ amps = qvector(Len(secret_string) + 1)
  /\ den = 1
  /\ ops = <<>>
  /\ index = 0
  /\ oracle_calls = 0
  /\ basis_in = None
  /\ TeleIdle
  /\ b0 = None
  /\ result = <<>>
  /\ queries = <<>>

\* The oracle kernel alone, on a register in the basis state x and an
\* auxiliary qubit in the basis state a.
OracleInit ==
  /\ kernel = "oracle"
  /\ pc = "oracle_loop"
  /\ secret_string \in Secrets
  /\ \E xv \in 0..(Pow2(MaxN) - 1), a \in {0, 1} :
       /\ xv < Pow2(Len(secret_string))
       /\ basis_in = <<xv, a>>
       /\ amps = BasisState(Len(secret_string) + 1,
                            xv + a * Pow2(Len(secret_string)))
  /\ den = 1
  /\ ops = <<>>
  /\ index = 0
  /\ oracle_calls = 1
  /\ TeleIdle
  /\ b0 = None
  /\ result = <<>>
  /\ queries = <<>>

\* The auxiliary qubit is never put in |1>: a slip.
BvXAux_Skipped ==
  /\ kernel = "bernstein_vazirani"
  /\ pc = "bv_x_aux"
  /\ pc' = "bv_h_aux"
  /\ UNCHANGED <<gradVars, vqeVars, ciVars, scriptVars, kernel, amps, den, ops, teleVars, bvVars, b0, result, queries>>

\* x(auxiliary_qubit)
BvXAux ==
  /\ kernel = "bernstein_vazirani"
  /\ pc = "bv_x_aux"
  /\ amps' = x(amps, Len(secret_string))
  /\ ops' = Append(ops, <<"x", Len(secret_string)>>)
  /\ pc' = "bv_h_aux"
  /\ UNCHANGED <<gradVars, vqeVars, ciVars, scriptVars, kernel, den, teleVars, bvVars, b0, result, queries>>

\* h(auxiliary_qubit)
BvHAux ==
  /\ kernel = "bernstein_vazirani"
  /\ pc = "bv_h_aux"
  /\ amps' = h(amps, Len(secret_string))
  /\ den' = 2 * den
  /\ ops' = Append(ops, <<"h", Len(secret_string)>>)
  /\ pc' = "bv_h_reg"
  /\ UNCHANGED <<gradVars, vqeVars, ciVars, scriptVars, kernel, teleVars, bvVars, b0, result, queries>>

\* h(qubits), before and after the oracle
BvHRegister ==
  /\ kernel = "bernstein_vazirani"
  /\ pc \in {"bv_h_reg", "bv_h_reg2"}
  /\ amps' = hAll(amps, Len(secret_string))
  /\ den' = Pow2(Len(secret_string)) * den
  /\ ops' = Append(ops, <<"h", "qubits">>)
  /\ pc' = IF pc = "bv_h_reg" THEN "bv_oracle" ELSE "bv_mz"
  /\ UNCHANGED <<gradVars, vqeVars, ciVars, scriptVars, kernel, teleVars, bvVars, b0, result, queries>>

\* oracle(qubits, auxiliary_qubit, secret_string)
BvCallOracle ==
  /\ kernel = "bernstein_vazirani"
  /\ pc = "bv_oracle"
  /\ oracle_calls' = oracle_calls + 1
  /\ index' = 0
  /\ pc' = "oracle_loop"
  /\ UNCHANGED <<gradVars, vqeVars, ciVars, scriptVars, kernel, amps, den, ops, teleVars, secret_string, basis_in, b0, result, queries>>

\* The oracle with its condition inverted (if bit == 0): a slip.
OracleStep_BitZero ==
  /\ pc = "oracle_loop"
  /\ index < Len(secret_string)
  /\ IF secret_string[index + 1] = 0
     THEN /\ amps' = cx(amps, index, Len(secret_string))
          /\ ops' = Append(ops, <<"cx", index, Len(secret_string)>>)
     ELSE UNCHANGED <<amps, ops>>
  /\ index' = index + 1
  /\ UNCHANGED <<gradVars, vqeVars, ciVars, scriptVars, kernel, pc, den, teleVars, secret_string, oracle_calls, basis_in, b0, result, queries>>

\* oracle, one iteration of: for index, bit in enumerate(secret_string):
\*   if bit == 1: x.ctrl(register[index], auxiliary_qubit)
OracleStep ==
  /\ pc = "oracle_loop"
  /\ index < Len(secret_string)
  /\ IF secret_string[index + 1] = 1
     THEN /\ amps' = cx(amps, index, Len(secret_string))
          /\ ops' = Append(ops, <<"cx", index, Len(secret_string)>>)
     ELSE UNCHANGED <<amps, ops>>
  /\ index' = index + 1
  /\ UNCHANGED <<gradVars, vqeVars, ciVars, scriptVars, kernel, pc, den, teleVars, secret_string, oracle_calls, basis_in, b0, result, queries>>

\* The loop of the oracle ends and the kernel returns.
OracleReturn ==
  /\ pc = "oracle_loop"
  /\ index = Len(secret_string)
  /\ pc' = IF kernel = "bernstein_vazirani" THEN "bv_h_reg2" ELSE "done"
  /\ UNCHANGED <<gradVars, vqeVars, ciVars, scriptVars, kernel, amps, den, ops, teleVars, bvVars, b0, result, queries>>

\* mz(qubits): measures only the main register
BvMeasure ==
  /\ kernel = "bernstein_vazirani"
  /\ pc = "bv_mz"
  /\ \E r \in BitStrings(Len(secret_string)) :
       /\ Norm(mzAll(amps, r)) > 0
       /\ amps' = mzAll(amps, r)
       /\ result' = r
  /\ ops' = Append(ops, <<"mz", "qubits">>)
  /\ pc' = "done"
  /\ UNCHANGED <<gradVars, vqeVars, ciVars, scriptVars, kernel, den, teleVars, bvVars, b0, queries>>

BvNext ==
  \/ BvXAux
  \/ BvHAux
  \/ BvHRegister
  \/ BvCallOracle
  \/ OracleStep
  \/ OracleReturn
  \/ BvMeasure

\* ---------------------------------------------------------- classical case
\* The strategy of the notebook: query f on the inputs with a single 1 bit,
\* 0..01 first and 10..0 last.

UnitVector(n, i) == [k \in 1..n |-> IF k = i THEN 1 ELSE 0]

ClassicalInit ==
  /\ kernel = "classical"
  /\ pc = "cl_query"
  /\ secret_string \in Secrets
  /\ queries = <<>>
  /\ amps = <<>>
  /\ den = 1
  /\ ops = <<>>
  /\ index = 0
  /\ oracle_calls = 0
  /\ basis_in = None
  /\ TeleIdle
  /\ b0 = None
  /\ result = <<>>

\* The k-th query: f on the input whose only 1 bit is at position n - k + 1.
ClassicalQuery ==
  /\ kernel = "classical"
  /\ pc = "cl_query"
  /\ Len(queries) < Len(secret_string)
  /\ LET n == Len(secret_string)
         xs == UnitVector(n, n - Len(queries))
     IN queries' = Append(queries, <<xs, f(xs, secret_string)>>)
  /\ UNCHANGED <<gradVars, vqeVars, ciVars, scriptVars, kernel, pc, amps, den, ops, teleVars, bvVars, b0, result>>

\* After n queries s is known.
ClassicalDone ==
  /\ kernel = "classical"
  /\ pc = "cl_query"
  /\ Len(queries) = Len(secret_string)
  /\ pc' = "done"
  /\ UNCHANGED <<gradVars, vqeVars, ciVars, scriptVars, kernel, amps, den, ops, teleVars, bvVars, b0, result, queries>>

\* The string the answers give: s_i is the answer to the query on 0..1..0
\* with its 1 at position i.
Recovered(qs) == [i \in 1..Len(qs) |-> qs[Len(qs) - i + 1][2]]

ClassicalNext == ClassicalQuery \/ ClassicalDone

\* ------------------------------------------------------ mid-circuit kernel

MidcircuitInit ==
  /\ kernel = "midcircuit"
  /\ pc = "mc_h0"
  /\ amps = qvector(2)
  /\ den = 1
  /\ ops = <<>>
  /\ b0 = None
  /\ result = <<>>
  /\ TeleIdle
  /\ BvIdle
  /\ queries = <<>>

\* h(q[0])
McH0 ==
  /\ kernel = "midcircuit"
  /\ pc = "mc_h0"
  /\ amps' = h(amps, 0)
  /\ den' = 2 * den
  /\ ops' = Append(ops, <<"h", 0>>)
  /\ pc' = "mc_b0"
  /\ UNCHANGED <<gradVars, vqeVars, ciVars, scriptVars, kernel, teleVars, bvVars, b0, result, queries>>

\* b0 = mz(q[0])
McMeasureB0 ==
  /\ kernel = "midcircuit"
  /\ pc = "mc_b0"
  /\ \E m \in Outcomes(amps, 0) :
       /\ b0' = m
       /\ amps' = Collapse(amps, 0, m)
  /\ ops' = Append(ops, <<"mz", 0>>)
  /\ pc' = "mc_if"
  /\ UNCHANGED <<gradVars, vqeVars, ciVars, scriptVars, kernel, den, teleVars, bvVars, result, queries>>

\* The condition inverted (if not b0): a slip.
McIf_Inverted ==
  /\ kernel = "midcircuit"
  /\ pc = "mc_if"
  /\ pc' = IF b0 = 0 THEN "mc_h1" ELSE "done"
  /\ UNCHANGED <<gradVars, vqeVars, ciVars, scriptVars, kernel, amps, den, ops, teleVars, bvVars, b0, result, queries>>

\* if b0:
McIf ==
  /\ kernel = "midcircuit"
  /\ pc = "mc_if"
  /\ pc' = IF b0 = 1 THEN "mc_h1" ELSE "done"
  /\ UNCHANGED <<gradVars, vqeVars, ciVars, scriptVars, kernel, amps, den, ops, teleVars, bvVars, b0, result, queries>>

\* h(q[1])
McH1 ==
  /\ kernel = "midcircuit"
  /\ pc = "mc_h1"
  /\ amps' = h(amps, 1)
  /\ den' = 2 * den
  /\ ops' = Append(ops, <<"h", 1>>)
  /\ pc' = "mc_mz1"
  /\ UNCHANGED <<gradVars, vqeVars, ciVars, scriptVars, kernel, teleVars, bvVars, b0, result, queries>>

\* mz(q[1])
McMeasureQ1 ==
  /\ kernel = "midcircuit"
  /\ pc = "mc_mz1"
  /\ \E m \in Outcomes(amps, 1) :
       /\ result' = <<m>>
       /\ amps' = Collapse(amps, 1, m)
  /\ ops' = Append(ops, <<"mz", 1>>)
  /\ pc' = "done"
  /\ UNCHANGED <<gradVars, vqeVars, ciVars, scriptVars, kernel, den, teleVars, bvVars, b0, queries>>

MidcircuitNext ==
  \/ McH0
  \/ McMeasureB0
  \/ McIf
  \/ McH1
  \/ McMeasureQ1

\* ------------------------------------------------ batched_gradient_function
\* Parameters and epsilon are integers (a fixed unit).  An expectation value
\* is kept as the term <<"E", parameters>> and a gradient element as the
\* quotient [plus, minus, by] that stands for (plus - minus) / by.

num_qpus == 1

\* np.tile(parameters, (reps, 1))
tile(p, reps) == [r \in 1..reps |-> p]

\* np.eye(n)
eye(n) == [r \in 1..n |-> [c \in 1..n |-> IF r = c THEN 1 ELSE 0]]

MatAdd(A, B) == [r \in DOMAIN A |-> [c \in DOMAIN A[r] |-> A[r][c] + B[r][c]]]
MatSub(A, B) == [r \in DOMAIN A |-> [c \in DOMAIN A[r] |-> A[r][c] - B[r][c]]]
MatScale(A, k) == [r \in DOMAIN A |-> [c \in DOMAIN A[r] |-> A[r][c] * k]]

\* x + (np.eye(x.shape[0]) * epsilon)
Xplus(xt, eps) == MatAdd(xt, MatScale(eye(Len(xt)), eps))

\* xminus built with + instead of -: a slip.
Xminus_Added(xt, eps) == MatAdd(xt, MatScale(eye(Len(xt)), eps))

\* x - (np.eye(x.shape[0]) * epsilon)
Xminus(xt, eps) == MatSub(xt, MatScale(eye(Len(xt)), eps))

\* cudaq.observe_async(kernel, hamiltonian, args, qpu_id = q): the future of
\* the call number id.
observe_async(args, q, id) == [id |-> id, args |-> args, qpu_id |-> q]

\* future.get().expectation()
expectation(future) == <<"E", future.args>>

\* (plus - minus) / by
Quotient(plus, minus, by) == [plus |-> plus, minus |-> minus, by |-> by]

KernelIdle ==
  /\ kernel = None /\ pc = None /\ amps = <<>> /\ den = 1 /\ ops = <<>>
  /\ TeleIdle /\ BvIdle /\ b0 = None /\ result = <<>> /\ queries = <<>>

GradIdle ==
  /\ gpc = None /\ parameters = <<>> /\ epsilon = 0
  /\ x_tile = <<>> /\ xplus = <<>> /\ xminus = <<>>
  /\ g_plus = <<>> /\ g_minus = <<>> /\ gradient = <<>>
  /\ qpu_counter = 0 /\ loop_i = 0 /\ calls = <<>> /\ gets = <<>>

ParameterVectors == UNION {[1..n -> 0..MaxParamValue] : n \in 1..MaxParams}

\* The call batched_gradient_function(kernel, parameters, hamiltonian, epsilon).
GradInit ==
  /\ gpc = "prepare"
  /\ parameters \in ParameterVectors
  /\ epsilon \in 1..MaxEpsilon
  /\ x_tile = <<>> /\ xplus = <<>> /\ xminus = <<>>
  /\ g_plus = <<>> /\ g_minus = <<>> /\ gradient = <<>>
  /\ qpu_counter = 0 /\ loop_i = 0 /\ calls = <<>> /\ gets = <<>>

\* x, xplus, xminus, the empty lists and qpu_counter = 0
GradPrepare ==
  /\ gpc = "prepare"
  /\ x_tile' = tile(parameters, Len(parameters))
  /\ xplus' = Xplus(x_tile', epsilon)
  /\ xminus' = Xminus(x_tile', epsilon)
  /\ g_plus' = <<>>
  /\ g_minus' = <<>>
  /\ gradient' = <<>>
  /\ qpu_counter' = 0
  /\ loop_i' = 0
  /\ gpc' = "loop_plus"
  /\ UNCHANGED <<kernelVars, ciVars, scriptVars, vqeVars, parameters, epsilon, calls, gets>>

\* for i in range(x.shape[0]): g_plus.append(observe_async(..., xplus[i],
\* qpu_id = qpu_counter % num_qpus)); qpu_counter += 1
GradIssuePlus ==
  /\ gpc = "loop_plus"
  /\ loop_i < Len(x_tile)
  /\ LET fut == observe_async(xplus[loop_i + 1], qpu_counter % num_qpus, Len(calls))
     IN /\ g_plus' = Append(g_plus, fut)
        /\ calls' = Append(calls, fut)
  /\ qpu_counter' = qpu_counter + 1
  /\ gpc' = "loop_minus"
  /\ UNCHANGED <<kernelVars, ciVars, scriptVars, vqeVars, parameters, epsilon, x_tile, xplus, xminus, g_minus, gradient,
                 loop_i, gets>>

\* The minus call with qpu_id = qpu_counter, the modulo left out: a slip.
GradIssueMinus_NoModulo ==
  /\ gpc = "loop_minus"
  /\ LET fut == observe_async(xminus[loop_i + 1], qpu_counter, Len(calls))
     IN /\ g_minus' = Append(g_minus, fut)
        /\ calls' = Append(calls, fut)
  /\ qpu_counter' = qpu_counter + 1
  /\ loop_i' = loop_i + 1
  /\ gpc' = "loop_plus"
  /\ UNCHANGED <<kernelVars, ciVars, scriptVars, vqeVars, parameters, epsilon, x_tile, xplus, xminus, g_plus, gradient, gets>>

\* g_minus.append(observe_async(..., xminus[i], qpu_id = qpu_counter %
\* num_qpus)); qpu_counter += 1, and the loop goes to the next i
GradIssueMinus ==
  /\ gpc = "loop_minus"
  /\ LET fut == observe_async(xminus[loop_i + 1], qpu_counter % num_qpus, Len(calls))
     IN /\ g_minus' = Append(g_minus, fut)
        /\ calls' = Append(calls, fut)
  /\ qpu_counter' = qpu_counter + 1
  /\ loop_i' = loop_i + 1
  /\ gpc' = "loop_plus"
  /\ UNCHANGED <<kernelVars, ciVars, scriptVars, vqeVars, parameters, epsilon, x_tile, xplus, xminus, g_plus, gradient, gets>>

\* The loop is over: the list comprehension starts.
GradLoopEnd ==
  /\ gpc = "loop_plus"
  /\ loop_i = Len(x_tile)
  /\ loop_i' = 0
  /\ gpc' = "collect"
  /\ UNCHANGED <<kernelVars, ciVars, scriptVars, vqeVars, parameters, epsilon, x_tile, xplus, xminus, g_plus, g_minus,
                 gradient, qpu_counter, calls, gets>>

\* The list comprehension collecting only the g_plus futures: a slip.
GradCollect_PlusOnly ==
  /\ gpc = "collect"
  /\ loop_i < Len(g_minus)
  /\ gradient' = Append(gradient,
                        Quotient(expectation(g_plus[loop_i + 1]),
                                 expectation(g_minus[loop_i + 1]),
                                 2 * epsilon))
  /\ gets' = gets \o <<g_plus[loop_i + 1]>>
  /\ loop_i' = loop_i + 1
  /\ UNCHANGED <<kernelVars, ciVars, scriptVars, vqeVars, gpc, parameters, epsilon, x_tile, xplus, xminus, g_plus, g_minus,
                 qpu_counter, calls>>

\* One element of gradient = [(g_plus[i].get().expectation() -
\* g_minus[i].get().expectation()) / (2*epsilon) for i in range(len(g_minus))]
GradCollect ==
  /\ gpc = "collect"
  /\ loop_i < Len(g_minus)
  /\ gradient' = Append(gradient,
                        Quotient(expectation(g_plus[loop_i + 1]),
                                 expectation(g_minus[loop_i + 1]),
                                 2 * epsilon))
  /\ gets' = gets \o <<g_plus[loop_i + 1], g_minus[loop_i + 1]>>
  /\ loop_i' = loop_i + 1
  /\ UNCHANGED <<kernelVars, ciVars, scriptVars, vqeVars, gpc, parameters, epsilon, x_tile, xplus, xminus, g_plus, g_minus,
                 qpu_counter, calls>>

\* return gradient
GradReturn ==
  /\ gpc = "collect"
  /\ loop_i = Len(g_minus)
  /\ gpc' = "done"
  /\ UNCHANGED <<kernelVars, ciVars, scriptVars, vqeVars, parameters, epsilon, x_tile, xplus, xminus, g_plus, g_minus,
                 gradient, qpu_counter, loop_i, calls, gets>>

GradNext ==
  \/ GradPrepare
  \/ GradIssuePlus
  \/ GradIssueMinus
  \/ GradLoopEnd
  \/ GradCollect
  \/ GradReturn

\* ------------------------------------------------------------ VQE procedure

\* cudaq.observe(kernel, hamiltonian, args)
observe(args) == [args |-> args]

VqeIdle ==
  /\ vpc = None /\ initial_params = <<>> /\ gradient_default = <<>>
  /\ parameter_vector = <<>> /\ cost = None /\ gradient_vector = <<>>
  /\ nfev = 0

\* The cell starts: gradient = batched_gradient_function(kernel,
\* initial_params, hamiltonian, epsilon) is called.
VqeInit ==
  /\ vpc = "first_gradient"
  /\ initial_params \in ParameterVectors
  /\ gradient_default = <<>>
  /\ parameter_vector = <<>> /\ cost = None /\ gradient_vector = <<>>
  /\ nfev = 0
  /\ GradInit
  /\ parameters = initial_params

\* gradient = batched_gradient_function(...) returns; objective_function is
\* defined and minimize(objective_function, initial_params, ...) starts.
VqeFirstGradient ==
  /\ vpc = "first_gradient"
  /\ gpc = "done"
  /\ gradient_default' = gradient
  /\ gpc' = None
  /\ vpc' = "minimize"
  /\ UNCHANGED <<kernelVars, ciVars, scriptVars, parameters, epsilon, x_tile, xplus, xminus, g_plus, g_minus,
                 gradient, qpu_counter, loop_i, calls, gets,
                 initial_params, parameter_vector, cost, gradient_vector, nfev>>

\* minimize calls objective_function(parameter_vector): at initial_params
\* first, then at the points the optimizer moves to.
VqeCallObjective ==
  /\ vpc \in {"minimize", "returned"}
  /\ nfev < MaxEvals
  /\ \E pv \in [1..Len(initial_params) -> 0..MaxParamValue] :
       /\ nfev = 0 => pv = initial_params
       /\ parameter_vector' = pv
  /\ nfev' = nfev + 1
  /\ vpc' = "cost"
  /\ UNCHANGED <<kernelVars, ciVars, scriptVars, gradVars, initial_params, gradient_default, cost,
                 gradient_vector>>

\* cost = cudaq.observe(kernel, hamiltonian, parameter_vector).expectation()
VqeCost ==
  /\ vpc = "cost"
  /\ cost' = expectation(observe(parameter_vector))
  /\ vpc' = "call_gradient"
  /\ UNCHANGED <<kernelVars, ciVars, scriptVars, gradVars, initial_params, gradient_default, parameter_vector,
                 gradient_vector, nfev>>

\* batched_gradient_function(kernel, initial_params, hamiltonian, epsilon)
\* is called.
VqeCallGradient ==
  /\ vpc = "call_gradient"
  /\ parameters' = initial_params
  /\ gpc' = "prepare"
  /\ x_tile' = <<>> /\ xplus' = <<>> /\ xminus' = <<>>
  /\ g_plus' = <<>> /\ g_minus' = <<>> /\ gradient' = <<>>
  /\ qpu_counter' = 0 /\ loop_i' = 0 /\ calls' = <<>> /\ gets' = <<>>
  /\ vpc' = "gradient"
  /\ UNCHANGED <<kernelVars, ciVars, scriptVars, epsilon, initial_params, gradient_default, parameter_vector,
                 cost, gradient_vector, nfev>>

\* gradient_vector = batched_gradient_function(...) returns, and
\* return cost, gradient_vector
VqeReturn ==
  /\ vpc = "gradient"
  /\ gpc = "done"
  /\ gradient_vector' = gradient
  /\ gpc' = None
  /\ vpc' = "returned"
  /\ UNCHANGED <<kernelVars, ciVars, scriptVars, parameters, epsilon, x_tile, xplus, xminus, g_plus, g_minus,
                 gradient, qpu_counter, loop_i, calls, gets,
                 initial_params, gradient_default, parameter_vector, cost, nfev>>

\* minimize returns result_vqe.
VqeFinish ==
  /\ vpc = "returned"
  /\ vpc' = "done"
  /\ UNCHANGED <<kernelVars, ciVars, scriptVars, gradVars, initial_params, gradient_default, parameter_vector,
                 cost, gradient_vector, nfev>>

VqeNext ==
  \/ VqeFirstGradient
  \/ VqeCallObjective
  \/ VqeCost
  \/ VqeCallGradient
  \/ VqeReturn
  \/ VqeFinish

\* --------------------------------------------------------------- strings
\* A string the scripts cut, compare or rewrite is the sequence of its
\* characters.

StartsWith(s, p) == Len(p) <= Len(s) /\ SubSeq(s, 1, Len(p)) = p

\* The string p is in s at position k.
MatchAt(s, p, k) == k + Len(p) - 1 <= Len(s) /\ SubSeq(s, k, k + Len(p) - 1) = p

\* bash ${s#p}
StripPrefix(s, p) ==
  IF StartsWith(s, p) THEN SubSeq(s, Len(p) + 1, Len(s)) ELSE s

\* sed -e 's@.*p\(\)@\1@': s without everything up to its last p.
StripThroughLast(s, p) ==
  LET at == {k \in 1..Len(s) : MatchAt(s, p, k)}
  IN IF at = {} THEN s
     ELSE LET k == CHOOSE m \in at : \A o \in at : o <= m
          IN SubSeq(s, k + Len(p), Len(s))

\* cut -d d -f 1
FirstField(s, d) ==
  LET at == {k \in 1..Len(s) : s[k] = d}
  IN IF at = {} THEN s
     ELSE SubSeq(s, 1, (CHOOSE m \in at : \A o \in at : m <= o) - 1)

\* Only the first a replaced (sed 's/a/b/'): a slip.
Tr_FirstOnly(s, a, b) ==
  [k \in 1..Len(s) |->
     IF s[k] = a /\ \A j \in 1..(k - 1) : s[j] # a THEN b ELSE s[k]]

\* tr a b
Tr(s, a, b) == [k \in 1..Len(s) |-> IF s[k] = a THEN b ELSE s[k]]

LowerCase ==
  ("A" :> "a") @@ ("B" :> "b") @@ ("C" :> "c") @@ ("D" :> "d") @@ ("E"
  :> "e") @@ ("F" :> "f") @@ ("G" :> "g") @@ ("H" :> "h") @@ ("I" :>
  "i") @@ ("J" :> "j") @@ ("K" :> "k") @@ ("L" :> "l") @@ ("M" :> "m")
  @@ ("N" :> "n") @@ ("O" :> "o") @@ ("P" :> "p") @@ ("Q" :> "q") @@
  ("R" :> "r") @@ ("S" :> "s") @@ ("T" :> "t") @@ ("U" :> "u") @@ ("V"
  :> "v") @@ ("W" :> "w") @@ ("X" :> "x") @@ ("Y" :> "y") @@ ("Z" :>
  "z")

\* bash ${s,,}
Lower(s) ==
  [k \in 1..Len(s) |-> IF s[k] \in DOMAIN LowerCase THEN LowerCase[s[k]] ELSE s[k]]

\* ------------------------------------------------ the workflow's contexts

\* The inputs the workflow declares (on: workflow_call: inputs:).
DeclaredInputs ==
  {"platform", "python_version", "devdeps_image", "devdeps_cache",
   "devdeps_archive", "create_staging_info"}

PythonVersions == {<<"3", ".", "1", "0">>, <<"3", ".", "1", "1">>}

WorkflowInputs ==
  [platform : {"linux/amd64"},
   python_version : PythonVersions,
   devdeps_image : {"", "ghcr.io/nvidia/cuda-quantum-devdeps:manylinux"},
   devdeps_cache : {"", "tar-cache-key"},
   devdeps_archive : {"", "/tmp/devdeps.tar"},
   create_staging_info : BOOLEAN]

\* ${{ inputs.<name> }}: an input the workflow does not declare is null,
\* which an expression compares equal to ''.
Input(inp, name) == IF name \in DOMAIN inp THEN inp[name] ELSE ""

\* ------------------------------------------------------ the validation job

\* matrix.os_image: the images of the test configuration.
UBI9 == <<"r", "e", "d", "h", "a", "t", "/", "u", "b", "i", "9", ":", "9", ".", "2">>
UBUNTU == <<"u", "b", "u", "n", "t", "u", ":", "2", "2", ".", "0", "4">>
GHCR_UBUNTU == <<"g", "h", "c", "r", ".", "i", "o", "/", "n", "v", "i", "d", "i", "a", "/", "u", "b", "u", "n", "t", "u", ":", "2", "2", ".", "0", "4">>
OsImages == {UBI9, UBUNTU, GHCR_UBUNTU}

\* matrix.pip_install_flags: ['', '--user']
PipInstallFlags == {"", "--user"}

\* github.repository_owner
RepositoryOwners == {<<"N", "V", "I", "D", "I", "A">>}

\* The steps of the job, in order.
ValidationSteps ==
  <<"checkout", "login", "load_wheel", "install", "tests", "mpi", "snippets",
    "examples", "summary">>

\* A file of docs/sphinx: the tree it is in (snippets/python,
\* examples/python, applications/python), its directory in the tree, its
\* name and extension, whether it prints to stdout, and a number telling
\* the files of a large tree apart.
DocsFile(tree, dir, base, ext, prints, n) ==
  [tree |-> tree, dir |-> dir, base |-> base, ext |-> ext, prints |-> prints, n |-> n]

DocsUniverse ==
  << DocsFile("snippets", "", "a", "py", FALSE, 0),
     DocsFile("snippets", "algorithms", "b", "py", TRUE, 0),
     DocsFile("snippets", "platform", "p", "py", FALSE, 0),
     DocsFile("snippets", "nvqc", "n", "py", FALSE, 0),
     DocsFile("examples", "", "e", "py", TRUE, 0),
     DocsFile("examples", "", "building_kernels", "py", FALSE, 0),
     DocsFile("applications", "", "app", "ipynb", FALSE, 0) >>

\* The subsequence of s at the positions in keep.
RECURSIVE Select(_, _)
Select(s, keep) ==
  IF s = <<>> THEN <<>>
  ELSE LET rest == Select(Tail(s), {k - 1 : k \in keep \ {1}})
       IN IF 1 \in keep THEN <<Head(s)>> \o rest ELSE rest

\* A tree of many snippets.
ManySnippets == [k \in 1..ManyFiles |-> DocsFile("snippets", "", "s", "py", FALSE, k)]

\* The trees of docs/sphinx the job may find in the checked-out repository.
DocsTrees ==
  {Select(DocsUniverse, keep) :
     keep \in {k \in SUBSET (1..Len(DocsUniverse)) : Cardinality(k) <= MaxFiles}}
  \cup {ManySnippets}

Range(s) == {s[k] : k \in 1..Len(s)}

\* find with -maxdepth 1: the snippets in subdirectories are left out.
FindSnippets_TopLevelOnly(tree) ==
  SelectSeq(tree, LAMBDA ex : /\ ex.tree = "snippets"
                              /\ ex.ext = "py"
                              /\ ex.dir = "")

\* find docs/sphinx/snippets/python -name '*.py' -not -path '*/platform/*'
\* -not -path '*/nvqc/*'
FindSnippets(tree) ==
  SelectSeq(tree, LAMBDA ex : /\ ex.tree = "snippets"
                             /\ ex.ext = "py"
                             /\ ex.dir # "platform"
                             /\ ex.dir # "nvqc")

\* find docs/sphinx/examples/python -name '*.py' -not -path
\* '*/building_kernels.py'
FindExamples(tree) ==
  SelectSeq(tree, LAMBDA ex : /\ ex.tree = "examples"
                             /\ ex.ext = "py"
                             /\ ex.base # "building_kernels")

\* The runs of the job the model follows: build_wheel succeeded with a
\* development image.
ValidationInputs ==
  {inp \in WorkflowInputs :
     /\ inp.devdeps_image # ""
     /\ inp.devdeps_cache = "" /\ inp.devdeps_archive = ""
     /\ ~inp.create_staging_info
     /\ inp.python_version = <<"3", ".", "1", "0">>}

BranchRef == [ref_type |-> "branch", ref_name |-> <<"m", "a", "i", "n">>]

BackendTrees == {<<>>, <<"test_IQM.py", "test_Quantinuum.py">>}

\* pytest's exit codes: passed, failed, interrupted, usage error, no tests
\* collected.
PytestStatuses == {0, 1, 2, 4, 5}

StepNames == {ValidationSteps[k] : k \in 1..Len(ValidationSteps)}

ValIdle ==
  /\ matrix = None /\ docs_tree = <<>> /\ failing = {} /\ backend_tests = <<>>
  /\ vstep = None /\ vat = None /\ outcome = <<>> /\ cancelled = FALSE
  /\ base_image = <<>> /\ distr = <<>> /\ imported = ""
  /\ validation_out = [exists |-> FALSE, lines |-> <<>>]
  /\ step_summary = <<>> /\ annotations = <<>> /\ exit_status = <<>>
  /\ containers = {} /\ found = <<>> /\ status_sum = 0 /\ executed = <<>>
  /\ backend_todo = <<>> /\ pytest_status = 0 /\ backend_run = <<>>

CtxIdle == inputs = None /\ github = None

\* A validation job starts on a fresh runner.
ValidationInit ==
  /\ inputs \in ValidationInputs
  /\ github \in {[ref_type |-> BranchRef.ref_type, ref_name |-> BranchRef.ref_name,
                  repository_owner |-> o] : o \in RepositoryOwners}
  /\ matrix \in [os_image : OsImages, pip_install_flags : PipInstallFlags]
  /\ docs_tree \in DocsTrees
  /\ failing \in IF docs_tree = ManySnippets
                 THEN {{}, Range(docs_tree)}
                 ELSE SUBSET (Range(FindSnippets(docs_tree)) \cup Range(FindExamples(docs_tree)))
  /\ backend_tests \in BackendTrees
  /\ vstep = ValidationSteps[1]
  /\ vat = "begin"
  /\ outcome = [s \in StepNames |-> "pending"]
  /\ cancelled = FALSE
  /\ base_image = <<>> /\ distr = <<>> /\ imported = ""
  /\ validation_out = [exists |-> FALSE, lines |-> <<>>]
  /\ step_summary = <<>> /\ annotations = <<>>
  /\ exit_status = [s \in StepNames |-> -1]
  /\ containers = {} /\ found = <<>> /\ status_sum = 0 /\ executed = <<>>
  /\ backend_todo = <<>> /\ pytest_status = 0 /\ backend_run = <<>>

\* success(): no earlier step failed and the job is not cancelled.
success == ~cancelled /\ \A s \in StepNames : outcome[s] # "failure"

\* The summary step with the default if: success(): a slip.
StepIf_SummaryOnSuccess(step) ==
  CASE step = "login" -> success /\ Input(inputs, "environment") = ""
    [] step = "mpi" -> success /\ matrix.os_image = UBI9
    [] OTHER -> success

\* The if: of a step (success() where the step has none).
StepIf(step) ==
  CASE step = "login" -> success /\ Input(inputs, "environment") = ""
    [] step = "mpi" -> success /\ matrix.os_image = UBI9
    [] step = "summary" -> TRUE /\ ~cancelled
    [] OTHER -> success

NextStep(step) ==
  LET k == CHOOSE j \in 1..Len(ValidationSteps) : ValidationSteps[j] = step
  IN IF k = Len(ValidationSteps) THEN "end" ELSE ValidationSteps[k + 1]

\* The step is reached and its if: holds.
At(step) == vstep = step /\ vat = "begin" /\ StepIf(step)

\* The exit status a process ends with when its script calls exit n.
ExitStatus(n) == n % ExitModulus

\* The step ends with the status st.
EndStep(step, st) ==
  /\ outcome' = [outcome EXCEPT ![step] = IF st = 0 THEN "success" ELSE "failure"]
  /\ exit_status' = [exit_status EXCEPT ![step] = st]
  /\ vstep' = NextStep(step)
  /\ vat' = "begin"

NoFile == DocsFile("", "", "", "", FALSE, 0)

\* A line of /tmp/validation.out about the file ex.
Line(text, ex) == [text |-> text, file |-> ex]

\* echo "::error ...::<msg>": an error annotation, with the file or count
\* its message names.
Error(msg, subject, n) == [msg |-> msg, subject |-> subject, n |-> n]

\* What no step of the job changes.
valFixed == <<nonCiVars, ctxVars, wfVars, valInputs>>

\* A step whose if: does not hold is skipped.
SkipStep ==
  /\ vstep \in StepNames
  /\ vat = "begin"
  /\ ~StepIf(vstep)
  /\ outcome' = [outcome EXCEPT ![vstep] = "skipped"]
  /\ vstep' = NextStep(vstep)
  /\ UNCHANGED <<valFixed, vat, cancelled, base_image, distr, imported, validation_out, step_summary,
                 annotations, exit_status, containers, found, status_sum, executed,
                 backend_todo, pytest_status, backend_run>>

\* The run is cancelled while the job is between two steps.
Cancel ==
  /\ vstep \in StepNames
  /\ vat = "begin"
  /\ ~cancelled
  /\ cancelled' = TRUE
  /\ UNCHANGED <<valFixed, vstep, vat, outcome, base_image, distr, imported, validation_out,
                 step_summary, annotations, exit_status, containers, found, status_sum,
                 executed, backend_todo, pytest_status, backend_run>>

\* A step that runs an action (uses:): it succeeds or fails.
UsesStep(step) ==
  /\ At(step)
  /\ \E st \in {0, 1} : EndStep(step, st)
  /\ UNCHANGED <<valFixed, cancelled, base_image, distr, imported, validation_out, step_summary,
                 annotations, containers, found, status_sum, executed, backend_todo,
                 pytest_status, backend_run>>

\* Checkout repository
Checkout == vstep = "checkout" /\ UsesStep("checkout")

\* Log in to GitHub CR
LoginGhcr == vstep = "login" /\ UsesStep("login")

\* Load cuda-quantum wheel
LoadWheel == vstep = "load_wheel" /\ UsesStep("load_wheel")

\* image_tag and base_image of the else branch:
\* ghcr.io/${repo_owner,,}/${image_tag#${repo_owner,,}}
GhcrImage(os_image, repo_owner) ==
  LET image_tag == StripThroughLast(os_image, <<".", "i", "o", "/">>)
  IN <<"g", "h", "c", "r", ".", "i", "o", "/">> \o Lower(repo_owner) \o <<"/">>
       \o StripPrefix(image_tag, Lower(repo_owner))

\* Install wheel in clean environment, up to docker run. The script runs
\* under bash -e: a failing docker build ends it; otherwise the container
\* wheel-validation is started.
InstallWheel ==
  /\ At("install")
  /\ distr' = FirstField(FirstField(matrix.os_image, ":"), "/")
  /\ base_image' = IF Input(inputs, "environment") # ""
                   THEN matrix.os_image
                   ELSE GhcrImage(matrix.os_image, github.repository_owner)
  /\ \E built \in BOOLEAN :
       IF ~built
       THEN /\ EndStep("install", 1)
            /\ UNCHANGED containers
       ELSE /\ containers' = containers \cup {"wheel-validation"}
            /\ vat' = "import"
            /\ UNCHANGED <<vstep, outcome, exit_status>>
  /\ UNCHANGED <<valFixed, cancelled, imported, validation_out, step_summary, annotations,
                 found, status_sum, executed, backend_todo, pytest_status, backend_run>>

\* docker exec outside the && || list: under bash -e a failed import ends
\* the step there: a slip.
ImportCudaq_ExitsOnFailure ==
  /\ vstep = "install" /\ vat = "import"
  /\ \E ok \in BOOLEAN :
       /\ imported' = IF ok THEN "true" ELSE "false"
       /\ IF ok
          THEN /\ containers' = containers \ {"wheel-validation"}
               /\ validation_out' =
                    [exists |-> TRUE,
                     lines |-> Append(validation_out.lines,
                                      Line("Successfully imported cudaq module.", NoFile))]
               /\ EndStep("install", 0)
          ELSE /\ EndStep("install", 1)
               /\ UNCHANGED <<containers, validation_out>>
  /\ UNCHANGED <<valFixed, cancelled, base_image, distr, step_summary, annotations,
                 found, status_sum, executed, backend_todo, pytest_status, backend_run>>

\* (docker exec wheel-validation python -c "import cudaq") && imported=true
\* || imported=false; docker stop wheel-validation; the import line.
ImportCudaq ==
  /\ vstep = "install" /\ vat = "import"
  /\ \E ok \in BOOLEAN : imported' = IF ok THEN "true" ELSE "false"
  /\ containers' = containers \ {"wheel-validation"}
  /\ validation_out' =
       [exists |-> TRUE,
        lines |-> Append(validation_out.lines,
                         Line(IF imported' # "true"
                              THEN "Failed to import cudaq module."
                              ELSE "Successfully imported cudaq module.",
                              NoFile))]
  /\ EndStep("install", 0)
  /\ UNCHANGED <<valFixed, cancelled, base_image, distr, step_summary, annotations,
                 found, status_sum, executed, backend_todo, pytest_status, backend_run>>

\* ./.github/actions/run-in-docker with shell: bash: the script runs in a
\* container of the image under bash without -e, and the step ends with
\* the exit status of the script.
run_in_docker(script_status) == script_status

\* The pattern /tmp/tests/backends/*.py: the files, or the pattern itself
\* when no file matches.
Glob(files) == IF files = <<>> THEN <<"*.py">> ELSE files

\* Run Python tests: the main test suite.
RunPythonTests ==
  /\ At("tests")
  /\ \E st \in PytestStatuses :
       /\ pytest_status' = st
       /\ IF st # 0
          THEN /\ annotations' = Append(annotations, Error("Python tests failed with status", "", st))
               /\ EndStep("tests", run_in_docker(1))
               /\ UNCHANGED backend_todo
          ELSE /\ backend_todo' = Glob(backend_tests)
               /\ vat' = "loop"
               /\ UNCHANGED <<annotations, outcome, exit_status, vstep>>
  /\ UNCHANGED <<valFixed, cancelled, base_image, distr, imported, validation_out, step_summary,
                 containers, found, status_sum, executed, backend_run>>

\* The loop accepting only the status 0: a slip.
RunBackendTest_OnlyZero ==
  /\ vstep = "tests" /\ vat = "loop"
  /\ backend_todo # <<>>
  /\ LET backendTest == Head(backend_todo)
     IN /\ backend_run' = Append(backend_run, backendTest)
        /\ \E st \in IF backendTest = "*.py" THEN {4} ELSE PytestStatuses :
             /\ pytest_status' = st
             /\ IF st # 0
                THEN /\ annotations' =
                          Append(annotations,
                                 Error("Python tests failed with status", backendTest, st))
                     /\ EndStep("tests", run_in_docker(1))
                     /\ UNCHANGED backend_todo
                ELSE /\ backend_todo' = Tail(backend_todo)
                     /\ UNCHANGED <<annotations, outcome, exit_status, vstep, vat>>
  /\ UNCHANGED <<valFixed, cancelled, base_image, distr, imported, validation_out, step_summary,
                 containers, found, status_sum, executed>>

\* Run Python tests: one backend test file of the for loop.
RunBackendTest ==
  /\ vstep = "tests" /\ vat = "loop"
  /\ backend_todo # <<>>
  /\ LET backendTest == Head(backend_todo)
     IN /\ backend_run' = Append(backend_run, backendTest)
        /\ \E st \in IF backendTest = "*.py" THEN {4} ELSE PytestStatuses :
             /\ pytest_status' = st
             /\ IF st # 0 /\ st # 5
                THEN /\ annotations' =
                          Append(annotations,
                                 Error("Python tests failed with status", backendTest, st))
                     /\ EndStep("tests", run_in_docker(1))
                     /\ UNCHANGED backend_todo
                ELSE /\ backend_todo' = Tail(backend_todo)
                     /\ UNCHANGED <<annotations, outcome, exit_status, vstep, vat>>
  /\ UNCHANGED <<valFixed, cancelled, base_image, distr, imported, validation_out, step_summary,
                 containers, found, status_sum, executed>>

\* Run Python tests: the for loop is over.
PythonTestsDone ==
  /\ vstep = "tests" /\ vat = "loop"
  /\ backend_todo = <<>>
  /\ EndStep("tests", run_in_docker(0))
  /\ UNCHANGED <<valFixed, cancelled, base_image, distr, imported, validation_out, step_summary,
                 annotations, containers, found, status_sum, executed, backend_todo,
                 pytest_status, backend_run>>

\* Run Python MPI tests
RunMpiTests ==
  /\ At("mpi")
  /\ \E pytest_mpi_status \in {0, 1} :
       IF pytest_mpi_status # 0
       THEN /\ annotations' = Append(annotations,
                                     Error("Python MPI plugin test failed with status", "",
                                           pytest_mpi_status))
            /\ EndStep("mpi", run_in_docker(1))
       ELSE /\ EndStep("mpi", run_in_docker(0))
            /\ UNCHANGED annotations
  /\ UNCHANGED <<valFixed, cancelled, base_image, distr, imported, validation_out, step_summary,
                 containers, found, status_sum, executed, backend_todo, pytest_status,
                 backend_run>>

\* The lines one iteration of the for loop appends: the header, what
\* the file prints, and the result.
FileLines(header, ex, succeeded) ==
  <<Line(header, ex)>>
    \o (IF ex.prints THEN <<Line("stdout", ex)>> ELSE <<>>)
    \o <<Line(IF succeeded THEN "Executed successfully." ELSE "Failed.", NoFile)>>

\* docker run --rm -dit --name <container>; status_sum=0; the for loop
\* starts over the files find lists.
ValidateStart(step, container, files) ==
  /\ At(step)
  /\ containers' = containers \cup {container}
  /\ status_sum' = 0
  /\ found' = files
  /\ vat' = "loop"
  /\ UNCHANGED <<valFixed, vstep, outcome, cancelled, base_image, distr, imported, validation_out,
                 step_summary, annotations, exit_status, executed, backend_todo,
                 pytest_status, backend_run>>

\* The loop left at the first file that fails (exit in the else branch):
\* a slip.
ValidateFile_StopsAtFailure(step, header) ==
  /\ vstep = step /\ vat = "loop"
  /\ found # <<>>
  /\ LET ex == Head(found)
         succeeded == ex \notin failing
     IN /\ executed' = Append(executed, ex)
        /\ validation_out' =
             [exists |-> TRUE,
              lines |-> validation_out.lines \o FileLines(header, ex, succeeded)]
        /\ status_sum' = IF succeeded THEN status_sum ELSE status_sum + 1
        /\ found' = IF succeeded THEN Tail(found) ELSE <<>>
  /\ UNCHANGED <<valFixed, vstep, vat, outcome, cancelled, base_image, distr, imported, step_summary,
                 annotations, exit_status, containers, backend_todo, pytest_status,
                 backend_run>>

\* One iteration of the for loop: the header, docker exec of the file with
\* its output appended to /tmp/validation.out, the result line and
\* status_sum.
ValidateFile(step, header) ==
  /\ vstep = step /\ vat = "loop"
  /\ found # <<>>
  /\ LET ex == Head(found)
         succeeded == ex \notin failing
     IN /\ executed' = Append(executed, ex)
        /\ validation_out' =
             [exists |-> TRUE,
              lines |-> validation_out.lines \o FileLines(header, ex, succeeded)]
        /\ status_sum' = IF succeeded THEN status_sum ELSE status_sum + 1
  /\ found' = Tail(found)
  /\ UNCHANGED <<valFixed, vstep, vat, outcome, cancelled, base_image, distr, imported, step_summary,
                 annotations, exit_status, containers, backend_todo, pytest_status,
                 backend_run>>

\* docker stop placed after the if: exit $status_sum leaves the container
\* running when files failed: a slip.
ValidateEnd_ExitBeforeStop(step, container, what) ==
  /\ vstep = step /\ vat = "loop"
  /\ found = <<>>
  /\ IF status_sum # 0
     THEN /\ annotations' = Append(annotations, Error(what, "", status_sum))
          /\ EndStep(step, ExitStatus(status_sum))
          /\ UNCHANGED containers
     ELSE /\ EndStep(step, 0)
          /\ containers' = containers \ {container}
          /\ UNCHANGED annotations
  /\ UNCHANGED <<valFixed, cancelled, base_image, distr, imported, validation_out, step_summary,
                 found, status_sum, executed, backend_todo, pytest_status, backend_run>>

\* After the loop: docker stop <container>, and the error annotation and
\* exit $status_sum when status_sum is not 0.
ValidateEnd(step, container, what) ==
  /\ vstep = step /\ vat = "loop"
  /\ found = <<>>
  /\ containers' = containers \ {container}
  /\ IF status_sum # 0
     THEN /\ annotations' = Append(annotations, Error(what, "", status_sum))
          /\ EndStep(step, ExitStatus(status_sum))
     ELSE /\ EndStep(step, 0)
          /\ UNCHANGED annotations
  /\ UNCHANGED <<valFixed, cancelled, base_image, distr, imported, validation_out, step_summary,
                 found, status_sum, executed, backend_todo, pytest_status, backend_run>>

\* Validate Python snippets in docs
SnippetsStart ==
  /\ vstep = "snippets"
  /\ ValidateStart("snippets", "wheel-validation-snippets", FindSnippets(docs_tree))

SnippetsFile == vstep = "snippets" /\ ValidateFile("snippets", "__Snippet")

SnippetsEnd ==
  /\ vstep = "snippets"
  /\ ValidateEnd("snippets", "wheel-validation-snippets",
                 "snippets failed; see step summary for a list of failures.")

\* Validate Python examples
ExamplesStart ==
  /\ vstep = "examples"
  /\ ValidateStart("examples", "wheel-validation-examples", FindExamples(docs_tree))

ExamplesFile == vstep = "examples" /\ ValidateFile("examples", "__Example")

ExamplesEnd ==
  /\ vstep = "examples"
  /\ ValidateEnd("examples", "wheel-validation-examples",
                 "examples failed; see step summary for a list of failures.")

\* The heading of the job summary.
Heading(os_image, installation_details) ==
  [text |-> "## Validation on", os_image |-> os_image, details |-> installation_details]

\* Create job summary
CreateJobSummary ==
  /\ At("summary")
  /\ IF validation_out.exists
     THEN LET installation_details ==
                IF matrix.pip_install_flags # ""
                THEN <<"(installed with", matrix.pip_install_flags, ")">>
                ELSE <<"(default installation)">>
          IN step_summary' =
               step_summary
                 \o << Heading(matrix.os_image, installation_details),
                       Line("The validation of the cuda-quantum Python wheel produced the following output:",
                            NoFile) >>
                 \o validation_out.lines
     ELSE UNCHANGED step_summary
  /\ EndStep("summary", 0)
  /\ UNCHANGED <<valFixed, cancelled, base_image, distr, imported, validation_out, annotations,
                 containers, found, status_sum, executed, backend_todo, pytest_status,
                 backend_run>>

ValidationNext ==
  \/ SkipStep
  \/ Cancel
  \/ Checkout
  \/ LoginGhcr
  \/ LoadWheel
  \/ InstallWheel
  \/ ImportCudaq
  \/ RunPythonTests
  \/ RunBackendTest
  \/ PythonTestsDone
  \/ RunMpiTests
  \/ SnippetsStart
  \/ SnippetsFile
  \/ SnippetsEnd
  \/ ExamplesStart
  \/ ExamplesFile
  \/ ExamplesEnd
  \/ CreateJobSummary

\* ------------------------------------------------ the 'Python wheels' workflow

IsDigit(c) == c \in {"0", "1", "2", "3", "4", "5", "6", "7", "8", "9"}

\* w matches ([0-9]{1,}\.)+[0-9]{1,}: groups of digits separated by dots,
\* at least two groups.
IsVersion(w) ==
  /\ w # <<>>
  /\ IsDigit(w[1]) /\ IsDigit(w[Len(w)])
  /\ \A k \in 1..Len(w) : IsDigit(w[k]) \/ w[k] = "."
  /\ \A k \in 1..(Len(w) - 1) : ~(w[k] = "." /\ w[k + 1] = ".")
  /\ \E k \in 1..Len(w) : w[k] = "."

\* The shortest match taken instead of the longest: a slip.
MatchEnd_Shortest(ends) == CHOOSE m \in ends : \A o \in ends : m <= o

\* egrep takes the longest match at a place: its end among the ends of the
\* matches that start there.
MatchEnd(ends) == CHOOSE m \in ends : \A o \in ends : o <= m

\* egrep -o "([0-9]{1,}\.)+[0-9]{1,}": the matches in s from position i on,
\* each the longest at the leftmost place, one per line.
RECURSIVE Egrep(_, _)
Egrep(s, i) ==
  IF i > Len(s) THEN <<>>
  ELSE LET ends == {j \in i..Len(s) : IsVersion(SubSeq(s, i, j))}
       IN IF ends = {} THEN Egrep(s, i + 1)
          ELSE LET j == MatchEnd(ends)
               IN <<SubSeq(s, i, j)>> \o Egrep(s, j + 1)

\* startsWith(github.ref_name, 'releases/')
RELEASES == <<"r", "e", "l", "e", "a", "s", "e", "s", "/">>

\* github.ref_type and github.ref_name of the runs the model follows.
Refs ==
  { [ref_type |-> "branch", ref_name |-> <<"m", "a", "i", "n">>],
    [ref_type |-> "branch", ref_name |-> <<"r", "e", "l", "e", "a", "s", "e", "s", "/", "v", "0", ".", "7", ".", "1">>],
    [ref_type |-> "branch", ref_name |-> <<"r", "e", "l", "e", "a", "s", "e", "s", "/", "n", "e", "x", "t">>],
    [ref_type |-> "tag", ref_name |-> <<"0", ".", "8", ".", "0">>],
    [ref_type |-> "tag", ref_name |-> <<"n", "i", "g", "h", "t", "l", "y">>] }

\* The org.opencontainers.image.version label of the development image,
\* as jq -r prints it (null when the image has no such label).
DevenvTags == {<<"n", "u", "l", "l">>, <<"e", "x", "t", ".", "1">>}

\* The os_images of the test configuration for the python version: some
\* images, or none.
TestConfigs == {<<>>, <<UBI9>>, <<UBI9, UBUNTU>>}

JobNames == {"build_wheel", "create_test_config", "validation", "staging"}

\* The steps of build_wheel, in order.
BuildSteps ==
  <<"checkout", "restore", "prereqs", "login", "context", "buildx", "build", "upload">>

NoOutputs == <<>>

WfIdle ==
  /\ jobs = <<>> /\ vjobs = <<>> /\ bstep = None /\ restore = None
  /\ archive_exists = FALSE /\ prereqs = NoOutputs /\ build_annotations = <<>>
  /\ build_exit = -1 /\ wheels = {} /\ artifacts = {} /\ test_config = <<>>
  /\ downloaded = <<>> /\ build_args = <<>>
  /\ staging_info = FALSE

\* The workflow is called: build_wheel and create_test_config can start.
WheelsInit ==
  /\ inputs \in WorkflowInputs
  /\ github \in {[ref_type |-> r.ref_type, ref_name |-> r.ref_name, repository_owner |-> o] :
                   r \in Refs, o \in RepositoryOwners}
  /\ jobs = [j \in JobNames |-> "waiting"]
  /\ vjobs = <<>>
  /\ bstep = BuildSteps[1]
  /\ restore = "pending"
  /\ archive_exists = FALSE
  /\ prereqs = NoOutputs
  /\ build_annotations = <<>>
  /\ build_exit = -1
  /\ wheels = {}
  /\ build_args = <<>>
  /\ artifacts = {}
  /\ test_config = <<>>
  /\ downloaded = <<>>
  /\ staging_info = FALSE

\* What no step of the workflow's jobs changes.
wfFixed == <<nonCiVars, ctxVars, valVars>>

NextBuildStep(step) ==
  LET k == CHOOSE j \in 1..Len(BuildSteps) : BuildSteps[j] = step
  IN IF k = Len(BuildSteps) THEN "end" ELSE BuildSteps[k + 1]

\* A step of build_wheel ends: a failed step fails the job and its other
\* steps are skipped (no step of the job has an if: that lets it run then);
\* the job succeeds with its last step.
EndBuildStep(step, ok) ==
  /\ bstep' = IF ok THEN NextBuildStep(step) ELSE "end"
  /\ jobs' = [jobs EXCEPT !["build_wheel"] =
                IF ~ok THEN "failure"
                ELSE IF NextBuildStep(step) = "end" THEN "success"
                ELSE "running"]

\* A step of build_wheel that sets the job up: it succeeds or fails.
BuildSetupStep(step) ==
  /\ bstep = step
  /\ \E ok \in BOOLEAN : EndBuildStep(step, ok)
  /\ UNCHANGED <<wfFixed, vjobs, restore, archive_exists, prereqs, build_annotations,
                 build_exit, wheels, build_args, artifacts, test_config, downloaded, staging_info>>

\* build_wheel: Checkout repository
BuildCheckout == bstep = "checkout" /\ BuildSetupStep("checkout")

\* Restore build environment without fail-on-cache-miss: a miss lets the
\* job go on: a slip.
RestoreBuildEnvironment_MissGoesOn ==
  /\ bstep = "restore"
  /\ IF inputs.devdeps_cache # "" /\ inputs.devdeps_archive # ""
     THEN \E hit \in BOOLEAN :
            /\ restore' = "success"
            /\ archive_exists' = hit
            /\ EndBuildStep("restore", TRUE)
     ELSE /\ restore' = "skipped"
          /\ UNCHANGED archive_exists
          /\ EndBuildStep("restore", TRUE)
  /\ UNCHANGED <<wfFixed, vjobs, prereqs, build_annotations, build_exit, wheels, build_args, artifacts,
                 test_config, downloaded, staging_info>>

\* build_wheel: Restore build environment, with fail-on-cache-miss: true
RestoreBuildEnvironment ==
  /\ bstep = "restore"
  /\ IF inputs.devdeps_cache # "" /\ inputs.devdeps_archive # ""
     THEN \E hit \in BOOLEAN :
            /\ restore' = IF hit THEN "success" ELSE "failure"
            /\ archive_exists' = hit
            /\ EndBuildStep("restore", hit)
     ELSE /\ restore' = "skipped"
          /\ UNCHANGED archive_exists
          /\ EndBuildStep("restore", TRUE)
  /\ UNCHANGED <<wfFixed, vjobs, prereqs, build_annotations, build_exit, wheels, build_args, artifacts,
                 test_config, downloaded, staging_info>>

\* The image:tag docker load reports for the restored archive.
LoadedImage == "ghcr.io/nvidia/cuda-quantum-devdeps:cached"

\* The status a failing docker command ends with.
DockerFailStatuses == {1, 125}

MissingConfiguration ==
  Error("Missing configuration for development dependencies. Either specify the image (i.e. provide devdeps_image) or cache (i.e. provide devdeps_cache and devdeps_archive) that should be used for the build.",
        "python_wheels.yml", 0)

\* The elif testing inputs.devdeps_image == '': a slip.
PrereqsBranch_ImageEmpty(restore_outcome, devdeps_image) ==
  IF restore_outcome # "skipped" THEN "cache"
  ELSE IF devdeps_image = "" THEN "image"
  ELSE "missing"

\* The branch of the if / elif / else of 'Load prerequisites'.
PrereqsBranch(restore_outcome, devdeps_image) ==
  IF restore_outcome # "skipped" THEN "cache"
  ELSE IF devdeps_image # "" THEN "image"
  ELSE "missing"

\* build_wheel: Load prerequisites. The script runs under bash -e: a
\* failing docker load, docker push, docker pull or docker image prune, and
\* an egrep that matches nothing, end it with that command's status.
LoadPrerequisites ==
  /\ bstep = "prereqs"
  /\ \E loaded, transferred, removed, pruned \in BOOLEAN,
        loaded_image \in {"", LoadedImage},
        devenv_tag \in DevenvTags,
        docker_status \in DockerFailStatuses :
       LET from_cache == PrereqsBranch(restore, inputs.devdeps_image) = "cache"
           from_image == PrereqsBranch(restore, inputs.devdeps_image) = "image"
           image == IF from_cache THEN loaded_image ELSE inputs.devdeps_image
           got == IF from_cache THEN loaded /\ image # "" /\ transferred
                  ELSE transferred
           is_release == \/ github.ref_type = "tag"
                         \/ StartsWith(github.ref_name, RELEASES)
           cudaq_version == IF is_release THEN Egrep(github.ref_name, 1)
                            ELSE << <<"0", ".", "0", ".", "0">> >>
           cache_id == Tr(inputs.python_version \o <<"-">> \o devenv_tag, ".", "-")
           status == IF ~from_cache /\ ~from_image THEN 1
                     ELSE IF ~got \/ (removed /\ ~pruned) THEN docker_status
                     ELSE IF cudaq_version = <<>> THEN 1
                     ELSE 0
       IN /\ build_exit' = status
          /\ build_annotations' =
               IF ~from_cache /\ ~from_image
               THEN Append(build_annotations, MissingConfiguration)
               ELSE build_annotations
          /\ archive_exists' = IF from_cache /\ got THEN FALSE ELSE archive_exists
          /\ prereqs' =
               IF status = 0
               THEN [cudaq_version |-> cudaq_version,
                     base_image |-> image,
                     docker_output |-> "type=local,dest=/tmp/wheels",
                     artifact_name |-> <<"p", "y", "c", "u", "d", "a", "q", "-">> \o cache_id]
               ELSE prereqs
          /\ EndBuildStep("prereqs", status = 0)
  /\ UNCHANGED <<wfFixed, vjobs, restore, wheels, build_args, artifacts, test_config, downloaded, staging_info>>

\* build_wheel: Log in to DockerHub
DockerHubLogin == bstep = "login" /\ BuildSetupStep("login")

\* build_wheel: Set up context for buildx
SetUpContext == bstep = "context" /\ BuildSetupStep("context")

\* build_wheel: Set up buildx runner
SetUpBuildx == bstep = "buildx" /\ BuildSetupStep("buildx")

\* The wheel the build writes to /tmp/wheels.
WheelFile == "cuda_quantum.whl"

\* build_wheel: Build wheel, with outputs: type=local,dest=/tmp/wheels
BuildWheel ==
  /\ bstep = "build"
  /\ \E ok \in BOOLEAN, files \in {{}, {WheelFile}} :
       /\ build_args' = [base_image |-> prereqs.base_image,
                          release_version |-> prereqs.cudaq_version,
                          python_version |-> inputs.python_version]
       /\ wheels' = IF ok THEN files ELSE wheels
       /\ EndBuildStep("build", ok)
  /\ UNCHANGED <<wfFixed, vjobs, restore, archive_exists, prereqs, build_annotations,
                 build_exit, artifacts, test_config, downloaded, staging_info>>

\* build_wheel: Upload wheel, with if-no-files-found: error
UploadWheel ==
  /\ bstep = "upload"
  /\ \E sent \in BOOLEAN :
       LET ok == wheels # {} /\ sent
       IN /\ artifacts' = IF ok
                          THEN artifacts \cup {[name |-> prereqs.artifact_name, files |-> wheels]}
                          ELSE artifacts
          /\ EndBuildStep("upload", ok)
  /\ UNCHANGED <<wfFixed, vjobs, restore, archive_exists, prereqs, build_annotations,
                 build_exit, wheels, build_args, test_config, downloaded, staging_info>>

Ended(job) == jobs[job] \in {"success", "failure", "skipped"}

\* create_test_config: the os_images of the configuration for the python
\* version become outputs.json, or the job fails.
CreateTestConfig ==
  /\ jobs["create_test_config"] = "waiting"
  /\ \E ok \in BOOLEAN, os_images \in TestConfigs :
       /\ test_config' = IF ok THEN os_images ELSE test_config
       /\ jobs' = [jobs EXCEPT !["create_test_config"] = IF ok THEN "success" ELSE "failure"]
  /\ UNCHANGED <<wfFixed, vjobs, bstep, restore, archive_exists, prereqs, build_annotations,
                 build_exit, wheels, build_args, artifacts, downloaded, staging_info>>

\* strategy: matrix: os_image x pip_install_flags
Matrix(os_images) ==
  [os_image : {os_images[k] : k \in 1..Len(os_images)}, pip_install_flags : PipInstallFlags]

\* validation: needs: [build_wheel, create_test_config]. With both ended
\* the job is skipped unless both succeeded, and then its matrix is
\* expanded (a matrix without values fails the job).
StartValidation ==
  /\ jobs["validation"] = "waiting"
  /\ Ended("build_wheel") /\ Ended("create_test_config")
  /\ IF jobs["build_wheel"] = "success" /\ jobs["create_test_config"] = "success"
     THEN IF test_config = <<>>
          THEN /\ jobs' = [jobs EXCEPT !["validation"] = "failure"]
               /\ UNCHANGED vjobs
          ELSE /\ jobs' = [jobs EXCEPT !["validation"] = "running"]
               /\ vjobs' = [m \in Matrix(test_config) |-> "waiting"]
     ELSE /\ jobs' = [jobs EXCEPT !["validation"] = "skipped"]
          /\ UNCHANGED vjobs
  /\ UNCHANGED <<wfFixed, bstep, restore, archive_exists, prereqs, build_annotations,
                 build_exit, wheels, build_args, artifacts, test_config, downloaded, staging_info>>

\* A job of the validation matrix starts.
ValidationJobStart ==
  /\ jobs["validation"] = "running"
  /\ \E m \in DOMAIN vjobs :
       /\ vjobs[m] = "waiting"
       /\ vjobs' = [vjobs EXCEPT ![m] = "running"]
  /\ UNCHANGED <<wfFixed, jobs, bstep, restore, archive_exists, prereqs, build_annotations,
                 build_exit, wheels, build_args, artifacts, test_config, downloaded, staging_info>>

\* The matrix with fail-fast left at its default (true): the failure of a
\* job cancels the jobs that have not ended: a slip.
ValidationJobEnd_FailFast ==
  /\ jobs["validation"] = "running"
  /\ \E m \in DOMAIN vjobs, ok \in BOOLEAN :
       LET name == prereqs.artifact_name
           there == \E a \in artifacts : a.name = name
       IN /\ vjobs[m] = "running"
          /\ downloaded' = [j \in DOMAIN downloaded \cup {m} |->
                              IF j = m THEN name ELSE downloaded[j]]
          /\ vjobs' = IF there /\ ok
                      THEN [vjobs EXCEPT ![m] = "success"]
                      ELSE [j \in DOMAIN vjobs |->
                              IF j = m THEN "failure"
                              ELSE IF vjobs[j] \in {"waiting", "running"} THEN "cancelled"
                              ELSE vjobs[j]]
  /\ UNCHANGED <<wfFixed, jobs, bstep, restore, archive_exists, prereqs, build_annotations,
                 build_exit, wheels, build_args, artifacts, test_config, staging_info>>

\* A job of the validation matrix runs: 'Load cuda-quantum wheel' downloads
\* the artifact named needs.build_wheel.outputs.artifact_name, and the
\* job succeeds or fails (fail-fast: false: the other jobs go on).
ValidationJobEnd ==
  /\ jobs["validation"] = "running"
  /\ \E m \in DOMAIN vjobs, ok \in BOOLEAN :
       LET name == prereqs.artifact_name
           there == \E a \in artifacts : a.name = name
       IN /\ vjobs[m] = "running"
          /\ downloaded' = [j \in DOMAIN downloaded \cup {m} |->
                              IF j = m THEN name ELSE downloaded[j]]
          /\ vjobs' = [vjobs EXCEPT ![m] = IF there /\ ok THEN "success" ELSE "failure"]
  /\ UNCHANGED <<wfFixed, jobs, bstep, restore, archive_exists, prereqs, build_annotations,
                 build_exit, wheels, build_args, artifacts, test_config, staging_info>>

\* All jobs of the matrix have ended: the result of validation.
ValidationDone ==
  /\ jobs["validation"] = "running"
  /\ \A m \in DOMAIN vjobs : vjobs[m] \in {"success", "failure"}
  /\ jobs' = [jobs EXCEPT !["validation"] =
                IF \A m \in DOMAIN vjobs : vjobs[m] = "success" THEN "success"
                ELSE "failure"]
  /\ UNCHANGED <<wfFixed, vjobs, bstep, restore, archive_exists, prereqs, build_annotations,
                 build_exit, wheels, build_args, artifacts, test_config, downloaded, staging_info>>

\* staging with needs: [build_wheel] only: a slip.
StartStaging_WithoutValidation ==
  /\ jobs["staging"] = "waiting"
  /\ Ended("build_wheel")
  /\ jobs' = [jobs EXCEPT !["staging"] =
                IF /\ jobs["build_wheel"] = "success"
                   /\ inputs.create_staging_info
                THEN "running" ELSE "skipped"]
  /\ UNCHANGED <<wfFixed, vjobs, bstep, restore, archive_exists, prereqs, build_annotations,
                 build_exit, wheels, build_args, artifacts, test_config, downloaded, staging_info>>

\* staging: needs: [build_wheel, validation], if: inputs.create_staging_info
\* (with the success() an if: without a status function implies).
StartStaging ==
  /\ jobs["staging"] = "waiting"
  /\ Ended("build_wheel") /\ Ended("validation")
  /\ jobs' = [jobs EXCEPT !["staging"] =
                IF /\ jobs["build_wheel"] = "success"
                   /\ jobs["validation"] = "success"
                   /\ inputs.create_staging_info
                THEN "running" ELSE "skipped"]
  /\ UNCHANGED <<wfFixed, vjobs, bstep, restore, archive_exists, prereqs, build_annotations,
                 build_exit, wheels, build_args, artifacts, test_config, downloaded, staging_info>>

\* staging: Create build info and Upload build info.
Staging ==
  /\ jobs["staging"] = "running"
  /\ \E ok \in BOOLEAN :
       /\ staging_info' = ok
       /\ jobs' = [jobs EXCEPT !["staging"] = IF ok THEN "success" ELSE "failure"]
  /\ UNCHANGED <<wfFixed, vjobs, bstep, restore, archive_exists, prereqs, build_annotations,
                 build_exit, wheels, build_args, artifacts, test_config, downloaded>>

WheelsNext ==
  \/ BuildCheckout
  \/ RestoreBuildEnvironment
  \/ LoadPrerequisites
  \/ DockerHubLogin
  \/ SetUpContext
  \/ SetUpBuildx
  \/ BuildWheel
  \/ UploadWheel
  \/ CreateTestConfig
  \/ StartValidation
  \/ ValidationJobStart
  \/ ValidationJobEnd
  \/ ValidationDone
  \/ StartStaging
  \/ Staging

\* ------------------------------------------------ the nvqc target configuration
\* The script is sourced with the extra arguments of the target as "$@".
\* A string the script builds is kept as the sequence of the pieces it is
\* concatenated from.

\* The case patterns of the argument loop and the key each one appends,
\* with the key of --nvqc-function-version-id spelt out in full: a slip.
NvqcOptions_LongVersionKey ==
  ("--nvqc-backend" :> "backend") @@ ("--nvqc-nqpus" :> "nqpus")
    @@ ("--nvqc-ngpus" :> "ngpus") @@ ("--nvqc-function-id" :> "function_id")
    @@ ("--nvqc-function-version-id" :> "function_version_id")
    @@ ("--nvqc-api-key" :> "api_key")

\* The case patterns of the argument loop and the key each one appends.
NvqcOptions ==
  ("--nvqc-backend" :> "backend") @@ ("--nvqc-nqpus" :> "nqpus")
    @@ ("--nvqc-ngpus" :> "ngpus") @@ ("--nvqc-function-id" :> "function_id")
    @@ ("--nvqc-function-version-id" :> "version_id")
    @@ ("--nvqc-api-key" :> "api_key")

\* The words an argument can be: the options of the case, an option of
\* another target and a value.
ArgWords == DOMAIN NvqcOptions \cup {"--remote-sim-backend", "foo"}

ArgLists == UNION {[1..n -> ArgWords] : n \in 0..MaxArgs}

NvqcIdle ==
  /\ npc = None /\ argv = <<>> /\ positional = <<>>
  /\ PLATFORM_EXTRA_ARGS = <<>> /\ target_config = <<>>

DockerIdle == dpc = None /\ docker_args = <<>> /\ pip_installs = <<>>

\* The script is sourced with some arguments.
NvqcInit ==
  /\ npc = "config"
  /\ argv \in ArgLists
  /\ positional = argv
  /\ PLATFORM_EXTRA_ARGS = <<>>
  /\ target_config = <<>>

\* The assignments before the loop.
NvqcConfigure ==
  /\ npc = "config"
  /\ target_config' =
       [msg |-> "",
        GEN_TARGET_BACKEND |-> "true",
        PLATFORM_LIBRARY |-> "mqpu",
        PLATFORM_QPU |-> "NvcfSimulatorQPU",
        LIBRARY_MODE |-> "false",
        PREPROCESSOR_DEFINES |-> <<"$PREPROCESSOR_DEFINES", " -D CUDAQ_REMOTE_SIM">>,
        LINKLIBS |-> <<"${LINKLIBS}", " -lcudaq-remote-simulator-qpu">>]
  /\ PLATFORM_EXTRA_ARGS' = <<>>
  /\ npc' = "loop"
  /\ UNCHANGED <<kernelVars, gradVars, vqeVars, ciVars, dockerVars, argv, positional>>

\* The loop tested with [ $# -gt 0 ]: a slip.
LoopGuard_GtZero(args) == Len(args) > 0

\* while [ $# -gt 1 ]
LoopGuard(args) == Len(args) > 1

\* shift n: n positional parameters are dropped; with fewer than n
\* parameters the command fails and drops none.
Shift(args, n) == IF n > Len(args) THEN args ELSE SubSeq(args, n + 1, Len(args))

\* "$k", empty when there is no such parameter
Param(args, k) == IF k <= Len(args) THEN args[k] ELSE ""

\* case "$1" in ... esac: what the matching branch appends to
\* PLATFORM_EXTRA_ARGS.
CaseAppends(args) ==
  IF Param(args, 1) \in DOMAIN NvqcOptions
  THEN <<";", NvqcOptions[Param(args, 1)], ";", Param(args, 2)>>
  ELSE <<>>

\* One iteration of the while loop: the case and shift 2.
NvqcIteration ==
  /\ npc = "loop"
  /\ LoopGuard(positional)
  /\ Len(PLATFORM_EXTRA_ARGS) <= 4 * MaxArgs  \* the string stays finite
  /\ PLATFORM_EXTRA_ARGS' = PLATFORM_EXTRA_ARGS \o CaseAppends(positional)
  /\ positional' = Shift(positional, 2)
  /\ UNCHANGED <<kernelVars, gradVars, vqeVars, ciVars, dockerVars, npc, argv, target_config>>

\* The test of the while fails: the script is over.
NvqcLoopExit ==
  /\ npc = "loop"
  /\ ~LoopGuard(positional)
  /\ npc' = "done"
  /\ UNCHANGED <<kernelVars, gradVars, vqeVars, ciVars, dockerVars, argv, positional,
                 PLATFORM_EXTRA_ARGS, target_config>>

NvqcNext ==
  \/ NvqcConfigure
  \/ NvqcIteration
  \/ NvqcLoopExit

\* ------------------------------------------------ the wheel validation image
\* docker build of docker/test/wheels/fedora.Dockerfile: one instruction
\* after the other; an instruction that fails ends the build.

\* The defaults of the ARG instructions.
ArgDefaults ==
  [python_version |-> <<"3", ".", "1", "0">>,
   pip_install_flags |-> <<"-", "-", "u", "s", "e", "r">>,
   preinstalled_modules |-> <<"n", "u", "m", "p", "y", " ", "p", "y", "t", "e", "s", "t", " ", "n", "v", "i", "d", "i", "a", "-", "c", "u", "b", "l", "a", "s", "-", "c", "u", "1", "2">>,
   optional_dependencies |-> <<>>,
   cuda_quantum_wheel |-> <<"c", "u", "d", "a", "_", "q", "u", "a", "n", "t", "u", "m", "_", "c", "u", "1", "2", "-", "0", ".", "0", ".", "0", "-", "c", "p", "3", "1", "0", "-", "c", "p", "3", "1", "0", "-", "m", "a", "n", "y", "l", "i", "n", "u", "x", "_", "2", "_", "2", "8", "_", "x", "8", "6", "_", "6", "4", ".", "w", "h", "l">>]

\* The --build-arg values of 'Install wheel in clean environment'.
WorkflowBuildArgs ==
  [python_version : PythonVersions,
   pip_install_flags : {<<>>, <<"-", "-", "u", "s", "e", "r">>},
   preinstalled_modules : {<<"n", "u", "m", "p", "y", " ", "p", "y", "t", "e", "s", "t", " ", "p", "s", "u", "t", "i", "l">>},
   optional_dependencies : {<<>>, <<"c", "u", "d", "a", "r", "t">>},
   cuda_quantum_wheel : {<<"c", "u", "d", "a", "_", "q", "u", "a", "n", "t", "u", "m", "-", "0", ".", "8", ".", "0", "-", "c", "p", "3", "1", "0", "-", "c", "p", "3", "1", "0", "-", "m", "a", "n", "y", "l", "i", "n", "u", "x", "_", "2", "_", "2", "8", "_", "x", "8", "6", "_", "6", "4", ".", "w", "h", "l">>,
                         ArgDefaults.cuda_quantum_wheel}]

\* The --build-arg values of a build: none, those of the workflow, or
\* those of a build without preinstalled modules.
BuildArgs ==
  {<<>>} \cup WorkflowBuildArgs
    \cup {[a EXCEPT !.preinstalled_modules = <<>>] : a \in WorkflowBuildArgs}

\* echo $words | xargs: the words between the blanks.
RECURSIVE Words(_)
Words(s) ==
  IF s = <<>> THEN <<>>
  ELSE IF Head(s) = " " THEN Words(Tail(s))
  ELSE LET rest == Tail(s)
           blanks == {k \in 1..Len(rest) : rest[k] = " "}
           n == IF blanks = {} THEN Len(rest) + 1
                ELSE CHOOSE k \in blanks : \A j \in blanks : k <= j
       IN <<SubSeq(s, 1, n)>> \o Words(SubSeq(rest, n, Len(rest)))

\* cudaq_package without tr _ -: a slip.
CudaqPackage_Underscores(wheel) == FirstField(wheel, "-")

\* cudaq_package=$(echo $cuda_quantum_wheel | cut -d '-' -f1 | tr _ -)
CudaqPackage(wheel) == Tr(FirstField(wheel, "-"), "_", "-")

\* python${python_version} -m pip install <flags> <what>
PipInstall(flags, what) ==
  [python |-> docker_args.python_version, flags |-> flags, what |-> what]

DockerSteps == <<"python", "preinstalled", "copy", "wheel", "optional">>

NextDockerStep(step) ==
  LET k == CHOOSE j \in 1..Len(DockerSteps) : DockerSteps[j] = step
  IN IF k = Len(DockerSteps) THEN "done" ELSE DockerSteps[k + 1]

\* docker build with some --build-arg values: an ARG not given has its
\* default.
DockerInit ==
  /\ dpc = DockerSteps[1]
  /\ \E given \in BuildArgs :
       docker_args = [name \in DOMAIN ArgDefaults |->
                        IF name \in DOMAIN given THEN given[name] ELSE ArgDefaults[name]]
  /\ pip_installs = <<>>

dockerFixed == <<kernelVars, gradVars, vqeVars, ciVars, nvqcVars, docker_args>>

\* RUN dnf update ... && dnf install ... python && python -m ensurepip
DockerPython ==
  /\ dpc = "python"
  /\ \E ok \in BOOLEAN : dpc' = IF ok THEN NextDockerStep("python") ELSE "failed"
  /\ UNCHANGED <<dockerFixed, pip_installs>>

\* RUN if [ -n "$preinstalled_modules" ]; then echo $preinstalled_modules
\* | xargs python -m pip install; fi
DockerPreinstalled ==
  /\ dpc = "preinstalled"
  /\ IF docker_args.preinstalled_modules # <<>>
     THEN \E ok \in BOOLEAN :
            /\ pip_installs' =
                 IF ok
                 THEN Append(pip_installs,
                             PipInstall(<<>>, Words(docker_args.preinstalled_modules)))
                 ELSE pip_installs
            /\ dpc' = IF ok THEN NextDockerStep("preinstalled") ELSE "failed"
     ELSE /\ dpc' = NextDockerStep("preinstalled")
          /\ UNCHANGED pip_installs
  /\ UNCHANGED dockerFixed

\* COPY of the wheel, the examples, applications, targets, snippets, tests
\* and README files.
DockerCopy ==
  /\ dpc = "copy"
  /\ \E ok \in BOOLEAN : dpc' = IF ok THEN NextDockerStep("copy") ELSE "failed"
  /\ UNCHANGED <<dockerFixed, pip_installs>>

\* RUN python -m pip install ${pip_install_flags} /tmp/$cuda_quantum_wheel
DockerWheel ==
  /\ dpc = "wheel"
  /\ \E ok \in BOOLEAN :
       /\ pip_installs' =
            IF ok
            THEN Append(pip_installs,
                        PipInstall(docker_args.pip_install_flags,
                                   << <<"/", "t", "m", "p", "/">> \o docker_args.cuda_quantum_wheel >>))
            ELSE pip_installs
       /\ dpc' = IF ok THEN NextDockerStep("wheel") ELSE "failed"
  /\ UNCHANGED dockerFixed

\* RUN if [ -n "$optional_dependencies" ]; then cudaq_package=... &&
\* python -m pip install ${pip_install_flags}
\* $cudaq_package[$optional_dependencies]; fi
DockerOptional ==
  /\ dpc = "optional"
  /\ IF docker_args.optional_dependencies # <<>>
     THEN \E ok \in BOOLEAN :
            /\ pip_installs' =
                 IF ok
                 THEN Append(pip_installs,
                             PipInstall(docker_args.pip_install_flags,
                                        << CudaqPackage(docker_args.cuda_quantum_wheel)
                                             \o <<"[">> \o docker_args.optional_dependencies
                                             \o <<"]">> >>))
                 ELSE pip_installs
            /\ dpc' = IF ok THEN NextDockerStep("optional") ELSE "failed"
     ELSE /\ dpc' = NextDockerStep("optional")
          /\ UNCHANGED pip_installs
  /\ UNCHANGED dockerFixed

DockerNext ==
  \/ DockerPython
  \/ DockerPreinstalled
  \/ DockerCopy
  \/ DockerWheel
  \/ DockerOptional

\* ---------------------------------------------------------- specification

\* The kernels of the notebooks.
Init ==
  /\ \/ TeleportInit
     \/ BvInit
     \/ OracleInit
     \/ ClassicalInit
     \/ MidcircuitInit
  /\ GradIdle
  /\ VqeIdle
  /\ CtxIdle /\ ValIdle /\ WfIdle
  /\ NvqcIdle /\ DockerIdle

Next ==
  \/ TeleportNext
  \/ BvNext
  \/ ClassicalNext
  \/ MidcircuitNext

Spec == Init /\ [][Next]_vars

\* batched_gradient_function.
InitGrad ==
  /\ GradInit /\ KernelIdle /\ VqeIdle /\ CtxIdle /\ ValIdle /\ WfIdle
  /\ NvqcIdle /\ DockerIdle

NextGrad == GradNext

SpecGrad == InitGrad /\ [][NextGrad]_vars

\* The VQE procedure with the batched gradient.
InitVqe ==
  /\ VqeInit /\ KernelIdle /\ CtxIdle /\ ValIdle /\ WfIdle
  /\ NvqcIdle /\ DockerIdle

NextVqe ==
  \/ GradNext
  \/ VqeNext

SpecVqe == InitVqe /\ [][NextVqe]_vars

\* One job of the validation matrix of the 'Python wheels' workflow.
InitValidation ==
  /\ ValidationInit /\ KernelIdle /\ GradIdle /\ VqeIdle /\ WfIdle
  /\ NvqcIdle /\ DockerIdle

NextValidation == ValidationNext

SpecValidation == InitValidation /\ [][NextValidation]_vars

\* The jobs of the 'Python wheels' workflow.
InitWheels ==
  /\ WheelsInit /\ KernelIdle /\ GradIdle /\ VqeIdle /\ ValIdle
  /\ NvqcIdle /\ DockerIdle

NextWheels == WheelsNext

SpecWheels == InitWheels /\ [][NextWheels]_vars

\* The nvqc target configuration script.
InitNvqc ==
  /\ NvqcInit /\ DockerIdle
  /\ KernelIdle /\ GradIdle /\ VqeIdle /\ CtxIdle /\ ValIdle /\ WfIdle

NextNvqc == NvqcNext

SpecNvqc == InitNvqc /\ [][NextNvqc]_vars

\* The script runs to its end: the shell goes on executing it.
SpecNvqcFair == SpecNvqc /\ WF_vars(NextNvqc)

\* The build of the wheel validation image.
InitDocker ==
  /\ DockerInit /\ NvqcIdle
  /\ KernelIdle /\ GradIdle /\ VqeIdle /\ CtxIdle /\ ValIdle /\ WfIdle

NextDocker == DockerNext

SpecDocker == InitDocker /\ [][NextDocker]_vars

\* ------------------------------------------------- claims: teleportation

\* Two vectors of amplitudes that stand for the same normalised state vector,
\* global phase included: v = c * w for a real c > 0.
SameVector(v, w) ==
  /\ \A i \in DOMAIN v : \A j \in DOMAIN v : CMul(v[i], w[j]) = CMul(v[j], w[i])
  /\ LET ip == CSumTo([k \in 0..(Len(v) - 1) |-> CMul(v[k + 1], CConj(w[k + 1]))],
                      Len(v) - 1)
     IN ip[1] > 0 /\ ip[2] = 0

\* The amplitudes of |0> and |1> of qubit 2 in the term where qubit 0 is a and
\* qubit 1 is b.
BobVector(sv, a, b) == <<sv[a + 2 * b], sv[a + 2 * b + 4]>>

\* Qubits 0 and 1 hold the measured values a and b: every other term is zero.
Collapsed(sv, a, b) ==
  \A i \in DOMAIN sv : (Bit(i, 0) # a \/ Bit(i, 1) # b) => sv[i] = CZero

TeleportDone == kernel = "teleportation" /\ pc = "done"

\* C1: for every input state psi and every measurement outcome (m1, m2), the
\* reduced state of qubit 2 in psi_4 equals the reduced state of qubit 0 in
\* psi_0 (the check of the notebook: partial_trace and np.allclose).
C1_Teleported ==
  TeleportDone =>
    allclose(partial_trace(psi_0, 3, {1, 2}), partial_trace(psi_4, 3, {0, 1}))

C1_Witness ==
  /\ TeleportDone /\ m1 = 1 /\ m2 = 1
  /\ alpha # CZero /\ beta # CZero /\ alpha # beta

\* C2 (as claimed): for each of the four outcomes the corrections z if m1 == 1,
\* x if m2 == 1 leave on qubit 2 exactly the state vector alpha|0> + beta|1>,
\* global phase included, as the documented operator Z^M1 X^M2 does.
C2_ExactAmplitudes ==
  (kernel = "teleportation" /\ pc \in {"tp_get", "done"}) =>
    /\ Collapsed(amps, m1, m2)
    /\ SameVector(BobVector(amps, m1, m2), <<alpha, beta>>)

BasisRho(m) ==
  [r \in 0..1 |-> [c \in 0..1 |-> IF r = m /\ c = m THEN COne ELSE CZero]]

Psi3Table(a, b, M1, M2) ==
  CASE M1 = 0 /\ M2 = 0 -> <<a, b>>
    [] M1 = 0 /\ M2 = 1 -> <<b, a>>
    [] M1 = 1 /\ M2 = 0 -> <<a, CNeg(b)>>
    [] M1 = 1 /\ M2 = 1 -> <<CNeg(b), a>>

BvDone == kernel = "bernstein_vazirani" /\ pc = "done"

\* C5: for every secret string the bernstein_vazirani kernel measures exactly
\* the n register qubits, the measured bits are the secret string (bit i is
\* secret_string[i]) with probability 1, and the oracle was queried once.
C5_MeasuresSecret ==
  BvDone =>
    /\ Len(result) = Len(secret_string)
    /\ result = secret_string
    /\ Norm(amps) = den
    /\ oracle_calls = 1

C5_Witness == BvDone /\ secret_string = <<1, 0, 1>> /\ result = <<1, 0, 1>>

\* The bits of the register value xv, bit i for register[i].
RegisterBits(xv, n) == [k \in 1..n |-> Bit(xv, k - 1)]

RECURSIVE ControlledNots(_, _)
\* A CNOT from register[index] onto the auxiliary qubit for each index with
\* secret_string[index] = 1, in the order of the loop.
ControlledNots(s, n) ==
  IF s = <<>> THEN <<>>
  ELSE ControlledNots(SubSeq(s, 1, Len(s) - 1), n)
         \o (IF s[Len(s)] = 1 THEN << <<"cx", Len(s) - 1, n>> >> ELSE <<>>)

OracleDone == kernel = "oracle" /\ pc = "done"

\* C6: the oracle applies a CNOT from register[index] onto the auxiliary
\* qubit exactly for the indices with secret_string[index] = 1, so on a basis
\* state the auxiliary qubit is flipped iff x . s mod 2 = 1 and the register
\* value x is unchanged.
C6_OracleFlipsOnDot ==
  OracleDone =>
    LET n == Len(secret_string)
        xv == basis_in[1]
        a == basis_in[2]
        fx == f(RegisterBits(xv, n), secret_string)
    IN /\ ops = ControlledNots(secret_string, n)
       /\ amps = BasisState(n + 1, xv + ((a + fx) % 2) * Pow2(n))

C6_Witness ==
  /\ OracleDone /\ secret_string = <<1, 0, 1>>
  /\ basis_in = <<1, 0>>
  /\ amps = BasisState(4, 1 + 8)

ClassicalFinished == kernel = "classical" /\ pc = "done"

\* C7: in the classical case the n queries of f on the inputs with a single 1
\* bit determine s: the query whose only 1 bit is at position i returns s_i,
\* and the n answers give back the whole string.
C7_ClassicalQueries ==
  ClassicalFinished =>
    /\ Len(queries) = Len(secret_string)
    /\ \A k \in 1..Len(queries) :
         \E i \in 1..Len(secret_string) :
           /\ queries[k][1] = UnitVector(Len(secret_string), i)
           /\ queries[k][2] = secret_string[i]
    /\ Recovered(queries) = secret_string

C7_Witness ==
  /\ ClassicalFinished /\ secret_string = <<1, 0, 1>>
  /\ queries = << <<(<<0, 0, 1>>), 1>>, <<(<<0, 1, 0>>), 0>>, <<(<<1, 0, 0>>), 1>> >>

\* ------------------------------------------- claims: mid-circuit kernel

McOnlyIfB0 == (\E k \in 1..Len(ops) : ops[k] = <<"h", 1>>) => b0 = 1

\* The runs in which mz(q[1]) gives 1 have b0 = 1, end in |11> and have
\* probability 1/4.
McQuarter ==
  (pc = "done" /\ result = <<1>>) =>
    /\ b0 = 1
    /\ \A i \in DOMAIN amps : i # 3 => amps[i] = CZero
    /\ 4 * Norm(amps) = den

\* C8 (as claimed): the Hadamard on qubit 1 is applied only in runs where b0
\* is 1, the measurement of qubit 1 gives 1 in exactly 25% of the runs, and
\* this is one of four equally weighted branches: every finished run has
\* probability 1/4.
C8_FourEqualBranches ==
  kernel = "midcircuit" =>
    /\ McOnlyIfB0
    /\ McQuarter
    /\ pc = "done" => 4 * Norm(amps) = den

\* C8 (amended): the Hadamard on qubit 1 is applied only in runs where b0 is
\* 1, and the measurement of qubit 1 gives 1 in exactly 25% of the runs: one
\* of three branches, b0 = 0 without a measurement of qubit 1 (probability
\* 1/2), b0 = 1 with result 0 and b0 = 1 with result 1 (1/4 each).
C8_QuarterOfRuns ==
  kernel = "midcircuit" =>
    /\ McOnlyIfB0
    /\ McQuarter
    /\ pc = "done" =>
         \/ b0 = 0 /\ result = <<>> /\ 2 * Norm(amps) = den
         \/ b0 = 1 /\ result \in {<<0>>, <<1>>} /\ 4 * Norm(amps) = den

C8_Witness ==
  /\ kernel = "midcircuit" /\ pc = "done" /\ result = <<1>>
  /\ \E k \in 1..Len(ops) : ops[k] = <<"h", 1>>

\* ------------------------------------ claims: batched_gradient_function

\* parameters with only element i changed by d.
ShiftOnly(p, i, d) == [k \in 1..Len(p) |-> IF k = i THEN p[k] + d ELSE p[k]]

GradDone == gpc = "done"

\* C9: for n parameters batched_gradient_function evaluates, for each i, one
\* expectation value at the parameters with only element i increased by
\* epsilon and one with only element i decreased by epsilon, 2n evaluations
\* in all, and returns a list of length n whose element i is
\* (E_plus[i] - E_minus[i]) / (2 * epsilon).
C9_ParameterShift ==
  GradDone =>
    LET n == Len(parameters)
    IN /\ Len(calls) = 2 * n
       /\ Len(gradient) = n
       /\ \A i \in 1..n :
            /\ calls[2 * i - 1].args = ShiftOnly(parameters, i, epsilon)
            /\ calls[2 * i].args = ShiftOnly(parameters, i, -epsilon)
            /\ gradient[i] =
                 Quotient(<<"E", ShiftOnly(parameters, i, epsilon)>>,
                          <<"E", ShiftOnly(parameters, i, -epsilon)>>,
                          2 * epsilon)

C9_Witness ==
  /\ GradDone /\ parameters = <<0, 1>> /\ epsilon = 1
  /\ gradient = << Quotient(<<"E", <<1, 1>> >>, <<"E", <<-1, 1>> >>, 2),
                   Quotient(<<"E", <<0, 2>> >>, <<"E", <<0, 0>> >>, 2) >>

\* C10 (as claimed): the gradient is batched over four devices: once four
\* observe_async calls are issued (two parameters, as in the example) they
\* are assigned to four distinct qpu_id values.
C10_FourDevices ==
  (GradDone /\ Len(calls) >= 4) =>
    Cardinality({calls[k].qpu_id : k \in 1..Len(calls)}) = 4

ShiftGradient(p, eps) ==
  [i \in 1..Len(p) |->
     Quotient(<<"E", ShiftOnly(p, i, eps)>>, <<"E", ShiftOnly(p, i, -eps)>>, 2 * eps)]

\* C12 (as claimed): whenever objective_function returns, the cost is the
\* expectation value at the parameter_vector it was called with and the
\* returned gradient is the batched parameter-shift gradient evaluated at
\* that parameter_vector.
C12_GradientAtParameterVector ==
  vpc = "returned" =>
    /\ cost = <<"E", parameter_vector>>
    /\ gradient_vector = ShiftGradient(parameter_vector, epsilon)

\* The job has ended and succeeded: every step succeeded or was skipped.
JobEnded == vstep = "end"

JobSucceeded ==
  /\ JobEnded /\ ~cancelled
  /\ \A s \in StepNames : outcome[s] \in {"success", "skipped"}

Executed == {executed[k] : k \in 1..Len(executed)}

\* C13 (as claimed): in a validation run that succeeds, every file copied
\* into the validation image from docs/sphinx (examples, applications,
\* snippets) has been executed at least once.
C13_EveryCopiedFileExecuted ==
  JobSucceeded =>
    \A k \in 1..Len(docs_tree) :
      docs_tree[k].tree \in {"examples", "applications", "snippets"} =>
        docs_tree[k] \in Executed

\* A file the validation steps look for: a .py snippet outside platform/
\* and nvqc/, or a .py example other than building_kernels.py.
Validated(ex) ==
  /\ ex.ext = "py"
  /\ \/ ex.tree = "snippets" /\ ex.dir \notin {"platform", "nvqc"}
     \/ ex.tree = "examples" /\ ex.base # "building_kernels"

\* C13 (amended): in a validation run that succeeds, every .py snippet
\* outside platform/ and nvqc/ and every .py example other than
\* building_kernels.py has been executed at least once, and no other copied
\* file (application, platform or nvqc snippet, building_kernels.py) is
\* executed.
C13_EveryValidatedFileExecuted ==
  JobSucceeded =>
    \A k \in 1..Len(docs_tree) :
      Validated(docs_tree[k]) <=> docs_tree[k] \in Executed

C13_Witness ==
  /\ JobSucceeded
  /\ Len(docs_tree) = 2 /\ Len(executed) = 2
  /\ executed[1].tree = "snippets" /\ executed[1].dir = "algorithms"
  /\ executed[2].tree = "examples"

\* The files of the tree whose execution failed.
StepFailures(tree) ==
  Cardinality({k \in 1..Len(executed) : executed[k].tree = tree /\ executed[k] \in failing})

\* The step has just ended.
JustEnded(step) ==
  /\ vstep = NextStep(step) /\ vat = "begin"
  /\ outcome[step] \in {"success", "failure"}

\* C16 (as claimed): when 'Validate Python snippets in docs' or 'Validate
\* Python examples' ends, status_sum is the number of files whose execution
\* failed, and the step has a non-zero exit status, is failed and has
\* written its '<count> ... failed' error annotation if and only if at
\* least one file failed.
C16_FailsIffAFileFailed ==
  \A step \in {"snippets", "examples"} :
    JustEnded(step) =>
      /\ status_sum = StepFailures(step)
      /\ exit_status[step] # 0 <=> StepFailures(step) > 0
      /\ outcome[step] = "failure" <=> StepFailures(step) > 0
      /\ (\E k \in 1..Len(annotations) :
            /\ annotations[k].n = StepFailures(step)
            /\ annotations[k].msg \in
                 {"snippets failed; see step summary for a list of failures.",
                  "examples failed; see step summary for a list of failures."})
           <=> StepFailures(step) > 0

\* s is t or the start of t.
IsPrefix(s, t) == Len(s) <= Len(t) /\ SubSeq(t, 1, Len(s)) = s

\* C17: in 'Run Python tests' a non-zero pytest status of the main test
\* suite fails the step with exit 1 before any backend test file is run;
\* for each backend test file a status of 0 or 5 is accepted and the loop
\* goes on with the next file, while any other status fails the step with
\* exit 1 and an error annotation naming that file, and no later backend
\* test file is run after it.
C17_PytestStatuses ==
  LET files == Glob(backend_tests)
  IN /\ (vstep = "tests" /\ vat = "loop") =>
          /\ pytest_status \in (IF backend_run = <<>> THEN {0} ELSE {0, 5})
          /\ backend_run \o backend_todo = files
          /\ outcome["tests"] = "pending"
     /\ outcome["tests"] = "success" =>
          /\ backend_run = files
          /\ pytest_status \in {0, 5}
          /\ exit_status["tests"] = 0
     /\ outcome["tests"] = "failure" =>
          /\ exit_status["tests"] = 1
          /\ IsPrefix(backend_run, files)
          /\ pytest_status \notin (IF backend_run = <<>> THEN {0} ELSE {0, 5})
          /\ annotations # <<>>
          /\ annotations[Len(annotations)] =
               Error("Python tests failed with status",
                     IF backend_run = <<>> THEN "" ELSE backend_run[Len(backend_run)],
                     pytest_status)

C17_Witness ==
  /\ JobEnded
  /\ outcome["tests"] = "failure"
  /\ backend_tests = <<"test_IQM.py", "test_Quantinuum.py">>
  /\ backend_run = <<"test_IQM.py">>
  /\ pytest_status = 1

\* What 'Create job summary' appends when /tmp/validation.out exists.
SummaryOf(flags, os_image, lines) ==
  << Heading(os_image,
             IF flags # "" THEN <<"(installed with", flags, ")">>
             ELSE <<"(default installation)">>),
     Line("The validation of the cuda-quantum Python wheel produced the following output:",
          NoFile) >>
    \o lines

\* C18: 'Create job summary' runs in every validation job that is not
\* cancelled, also when an earlier step failed; it appends the heading
\* and the whole content of /tmp/validation.out to the step summary exactly
\* when that file exists, and the heading says '(installed with <flags>)'
\* when matrix.pip_install_flags is non-empty and '(default installation)'
\* otherwise.
C18_JobSummary ==
  /\ (JobEnded /\ ~cancelled) => outcome["summary"] = "success"
  /\ outcome["summary"] = "success" =>
       step_summary =
         IF validation_out.exists
         THEN SummaryOf(matrix.pip_install_flags, matrix.os_image, validation_out.lines)
         ELSE <<>>
  /\ outcome["summary"] # "success" => step_summary = <<>>

C18_Witness ==
  /\ JobEnded
  /\ outcome["snippets"] = "failure"
  /\ outcome["summary"] = "success"
  /\ matrix.pip_install_flags = "--user"
  /\ Len(step_summary) = 2 + Len(validation_out.lines)
  /\ Len(validation_out.lines) >= 3
  /\ step_summary[1].details = <<"(installed with", "--user", ")">>

\* C19 (as claimed): once 'Install wheel in clean environment' has run, the
\* wheel is validated against the public image (base_image = os_image) when
\* inputs.environment is non-empty and otherwise against the image on GHCR
\* (ghcr.io/<lower-cased repository owner>/...); 'Log in to GitHub CR' has
\* run exactly when the GHCR image is used; and both cases are reachable
\* through the inputs the workflow declares.
C19_BothImagesReachable ==
  outcome["install"] \in {"success", "failure"} =>
    LET ghcr == <<"g", "h", "c", "r", ".", "i", "o", "/">>
                  \o Lower(github.repository_owner) \o <<"/">>
        on_ghcr == StartsWith(base_image, ghcr)
    IN /\ Input(inputs, "environment") # "" => base_image = matrix.os_image
       /\ Input(inputs, "environment") = "" => on_ghcr
       /\ outcome["login"] = "success" <=> on_ghcr
       /\ \E inp \in WorkflowInputs : Input(inp, "environment") = ""
       /\ \E inp \in WorkflowInputs : Input(inp, "environment") # ""

\* A job has started.
Started(status) == status \in {"running", "success", "failure"}

\* C14: no validation job starts before both build_wheel and
\* create_test_config have completed successfully; the staging job starts
\* only after build_wheel and every job of the validation matrix have
\* completed successfully and only when inputs.create_staging_info is true;
\* so a failed wheel build or a failed validation never leads to staging
\* info being uploaded.
C14_JobOrdering ==
  LET validated == /\ DOMAIN vjobs # {}
                   /\ \A m \in DOMAIN vjobs : vjobs[m] = "success"
  IN /\ (Started(jobs["validation"]) \/ \E m \in DOMAIN vjobs : Started(vjobs[m])) =>
          /\ jobs["build_wheel"] = "success"
          /\ jobs["create_test_config"] = "success"
     /\ (Started(jobs["staging"]) \/ staging_info) =>
          /\ jobs["build_wheel"] = "success"
          /\ validated
          /\ inputs.create_staging_info
     /\ (jobs["build_wheel"] = "failure" \/ \E m \in DOMAIN vjobs : vjobs[m] = "failure") =>
          ~staging_info

C14_Witness ==
  /\ jobs["staging"] = "success" /\ staging_info
  /\ Cardinality(DOMAIN vjobs) = 4
  /\ \A m \in DOMAIN vjobs : vjobs[m] = "success"

\* 'Load prerequisites' has run.
PrereqsRan == build_exit # -1

\* Neither a cache (both devdeps_cache and devdeps_archive) nor an image.
NothingProvided ==
  /\ ~(inputs.devdeps_cache # "" /\ inputs.devdeps_archive # "")
  /\ inputs.devdeps_image = ""

OutputsWritten ==
  /\ DOMAIN prereqs = {"cudaq_version", "base_image", "docker_output", "artifact_name"}
  /\ prereqs.base_image # ""
  /\ prereqs.cudaq_version # <<>>
  /\ prereqs.artifact_name # <<>>

MissingAnnotated ==
  \E k \in 1..Len(build_annotations) :
    build_annotations[k].subject = "python_wheels.yml"

\* C15 (as claimed): 'Load prerequisites' fails with exit status 1 and the
\* 'Missing configuration for development dependencies' annotation if and
\* only if neither a cache nor an image is provided; in every other case a
\* base image is determined and the four outputs are all written.
C15_OutputsInEveryOtherCase ==
  PrereqsRan =>
    /\ (build_exit = 1 /\ MissingAnnotated) <=> NothingProvided
    /\ ~NothingProvided => OutputsWritten

\* The ref is a tag or a releases/ branch whose name holds no dotted version.
ReleaseWithoutVersion ==
  /\ github.ref_type = "tag" \/ StartsWith(github.ref_name, RELEASES)
  /\ \A i \in 1..Len(github.ref_name), j \in 1..Len(github.ref_name) :
       ~IsVersion(SubSeq(github.ref_name, i, j))

\* C15 (amended): the step fails with exit status 1 and the annotation if
\* and only if neither a cache nor an image is provided; in every other
\* case it either succeeds, with a base image determined and the four
\* outputs written, or fails without the annotation and without any
\* output, and it always fails for a tag or releases/ ref whose name holds
\* no dotted version.
C15_OutputsUnlessACommandFails ==
  PrereqsRan =>
    /\ (build_exit = 1 /\ MissingAnnotated) <=> NothingProvided
    /\ build_exit = 0 <=> OutputsWritten
    /\ build_exit # 0 => prereqs = NoOutputs /\ jobs["build_wheel"] = "failure"
    /\ ~NothingProvided => ~MissingAnnotated
    /\ ReleaseWithoutVersion => build_exit # 0

C15_Witness ==
  /\ PrereqsRan /\ build_exit = 0
  /\ restore = "success" /\ inputs.devdeps_image # ""
  /\ prereqs.base_image = LoadedImage
  /\ ~archive_exists

\* Every '.' of s written as '-'.
Dashed(s) == [k \in 1..Len(s) |-> IF s[k] = "." THEN "-" ELSE s[k]]

\* C20: the artifact name output by build_wheel is 'pycudaq-' followed by
\* '<python_version>-<devenv_tag>' with every '.' replaced by '-'; the wheel
\* is uploaded under exactly that name, and the upload fails if /tmp/wheels
\* holds no file; every validation job downloads the artifact with exactly
\* the name build_wheel produced.
C20_ArtifactName ==
  /\ prereqs # NoOutputs =>
       /\ \E devenv_tag \in DevenvTags :
            prereqs.artifact_name =
              <<"p", "y", "c", "u", "d", "a", "q", "-">>
                \o Dashed(inputs.python_version) \o <<"-">> \o Dashed(devenv_tag)
       /\ \A k \in 1..Len(prereqs.artifact_name) : prereqs.artifact_name[k] # "."
  /\ \A a \in artifacts : a.name = prereqs.artifact_name /\ a.files # {}
  /\ jobs["build_wheel"] = "success" =>
       /\ wheels # {}
       /\ artifacts = {[name |-> prereqs.artifact_name, files |-> wheels]}
  /\ (bstep = "end" /\ wheels = {}) => jobs["build_wheel"] = "failure" /\ artifacts = {}
  /\ \A m \in DOMAIN downloaded :
       /\ downloaded[m] = prereqs.artifact_name
       /\ \E a \in artifacts : a.name = downloaded[m]

C20_Witness ==
  /\ inputs.python_version = <<"3", ".", "1", "0">>
  /\ prereqs # NoOutputs
  /\ prereqs.artifact_name =
       <<"p", "y", "c", "u", "d", "a", "q", "-", "3", "-", "1", "0", "-", "e", "x", "t", "-", "1">>
  /\ \E a \in artifacts : a.name = prereqs.artifact_name
  /\ Cardinality(DOMAIN downloaded) = 4
  /\ \A m \in DOMAIN vjobs : vjobs[m] = "success"

\* The number of issued calls assigned to QPU q.
CallsOn(q) == Cardinality({k \in 1..Len(calls) : calls[k].qpu_id = q})

CacheProvided == inputs.devdeps_cache # "" /\ inputs.devdeps_archive # ""

\* 'Restore build environment' has run or was skipped.
RestoreDone == restore # "pending"

\* C23: when both devdeps_cache and devdeps_archive are provided the base
\* image is the one loaded from the restored archive and devdeps_image is
\* ignored; the archive file is removed after the image is pushed to the
\* local registry; a cache miss fails the job instead of falling back to
\* devdeps_image.
C23_CacheBeforeImage ==
  (CacheProvided /\ RestoreDone) =>
    /\ restore \in {"success", "failure"}
    /\ (prereqs # NoOutputs) =>
         /\ restore = "success"
         /\ prereqs.base_image = LoadedImage
         /\ prereqs.base_image # inputs.devdeps_image
         /\ ~archive_exists
    /\ (~PrereqsRan /\ jobs["build_wheel"] = "running") => archive_exists
    /\ restore = "failure" =>
         /\ jobs["build_wheel"] = "failure"
         /\ ~PrereqsRan
         /\ prereqs = NoOutputs
         /\ wheels = {} /\ artifacts = {}

C23_Witness ==
  /\ CacheProvided /\ inputs.devdeps_image # ""
  /\ restore = "success"
  /\ prereqs # NoOutputs
  /\ prereqs.base_image = LoadedImage
  /\ jobs["build_wheel"] = "success"

\* A cache miss with devdeps_image provided: the job has failed.
C23_WitnessMiss ==
  /\ CacheProvided /\ inputs.devdeps_image # ""
  /\ restore = "failure"
  /\ jobs["build_wheel"] = "failure"

\* The ref is a tag or a branch starting with 'releases/'.
IsReleaseRef == github.ref_type = "tag" \/ StartsWith(github.ref_name, RELEASES)

\* v is a dotted numeric version standing in s that no neighbouring digit or
\* dotted group extends.
VersionIn(v, s) ==
  /\ IsVersion(v)
  /\ \E i \in 1..Len(s) :
       /\ i + Len(v) - 1 <= Len(s)
       /\ SubSeq(s, i, i + Len(v) - 1) = v
       /\ \A j \in (i + Len(v))..Len(s) : ~IsVersion(SubSeq(s, i, j))
       /\ \A g \in 1..(i - 1) : ~IsVersion(SubSeq(s, g, i + Len(v) - 1))

\* The cudaq_version the claim gives for the ref.
IsCudaqVersion(lines) ==
  /\ lines # <<>>
  /\ IF IsReleaseRef
     THEN Len(lines) = 1 /\ VersionIn(lines[1], github.ref_name)
     ELSE lines = << <<"0", ".", "0", ".", "0">> >>

\* C27: the cudaq_version passed to the wheel build as release_version is
\* the dotted numeric version (digits separated by dots, at least two
\* groups) extracted from github.ref_name when the ref is a tag or a branch
\* starting with 'releases/', and 0.0.0 for every other ref; it is never
\* empty when the step succeeds.
C27_ReleaseVersion ==
  /\ (PrereqsRan /\ build_exit = 0) => IsCudaqVersion(prereqs.cudaq_version)
  /\ build_args # <<>> =>
       /\ build_args.release_version = prereqs.cudaq_version
       /\ IsCudaqVersion(build_args.release_version)
  /\ (build_args # <<>> /\ github.ref_name = <<"r", "e", "l", "e", "a", "s", "e", "s", "/", "v", "0", ".", "7", ".", "1">>) =>
       build_args.release_version = << <<"0", ".", "7", ".", "1">> >>

C27_Witness ==
  /\ build_args # <<>>
  /\ github.ref_type = "branch" /\ IsReleaseRef
  /\ build_args.release_version = << <<"0", ".", "7", ".", "1">> >>
  /\ jobs["build_wheel"] = "success"

\* C28: the wheel is validated once for every combination of an os_image
\* of the test configuration and a pip_install_flags value in {'', '--user'};
\* with fail-fast: false the failure of one combination never cancels or
\* skips another: every combination runs to its own success or failure.
C28_EveryCombination ==
  (jobs["validation"] \in {"running", "success", "failure"} /\ test_config # <<>>) =>
    /\ DOMAIN vjobs = {[os_image |-> o, pip_install_flags |-> fl] :
                         o \in Range(test_config), fl \in {"", "--user"}}
    /\ Cardinality(DOMAIN vjobs) = 2 * Len(test_config)
    /\ \A m \in DOMAIN vjobs :
         /\ vjobs[m] \in {"waiting", "running", "success", "failure"}
         /\ vjobs[m] \in {"success", "failure"} <=> m \in DOMAIN downloaded
    /\ jobs["validation"] \in {"success", "failure"} =>
         \A m \in DOMAIN vjobs : vjobs[m] \in {"success", "failure"}

\* A combination failed first, and every other combination still ran.
C28_Witness ==
  /\ jobs["validation"] = "failure"
  /\ Cardinality(DOMAIN vjobs) = 4
  /\ Cardinality({m \in DOMAIN vjobs : vjobs[m] = "failure"}) = 1
  /\ Cardinality({m \in DOMAIN vjobs : vjobs[m] = "success"}) = 3

\* The for loop of a validation step is running.
InLoop == vstep \in {"snippets", "examples"} /\ vat = "loop"

\* The files find lists for the step.
StepFiles(step) ==
  IF step = "snippets" THEN FindSnippets(docs_tree) ELSE FindExamples(docs_tree)

\* What is executed before the loop of the step starts.
ExecutedBefore(step) == IF step = "examples" THEN FindSnippets(docs_tree) ELSE <<>>

\* In the loop the files executed and the files still to come make up the
\* files found; when the step has ended all of them are executed, in order.
AllFilesExecuted ==
  /\ InLoop => executed \o found = ExecutedBefore(vstep) \o StepFiles(vstep)
  /\ \A step \in {"snippets", "examples"} :
       outcome[step] \in {"success", "failure"} =>
         IsPrefix(ExecutedBefore(step) \o StepFiles(step), executed)

\* An iteration executes the next file found, stays in the loop whatever
\* the result, and appends the header of the file, what the file prints
\* and one result line.
IterationAppends ==
  (InLoop /\ found # <<>>) =>
    LET ex == Head(found)
        old == validation_out.lines
        new == SubSeq(validation_out.lines', Len(old) + 1, Len(validation_out.lines'))
    IN /\ vstep' = vstep /\ vat' = "loop"
       /\ executed' = Append(executed, ex)
       /\ found' = Tail(found)
       /\ IsPrefix(old, validation_out.lines')
       /\ Len(new) >= 2
       /\ new[1] = Line(IF vstep = "snippets" THEN "__Snippet" ELSE "__Example", ex)
       /\ new[Len(new)] = Line(IF ex \in failing THEN "Failed." ELSE "Executed successfully.",
                               NoFile)
       /\ \A k \in 2..(Len(new) - 1) : new[k] = Line("stdout", ex)

\* C24: in the snippet and example validation steps every file found is
\* executed, also after earlier files failed (no early exit), and
\* /tmp/validation.out receives for each file, in iteration order, its
\* header line followed by exactly one of 'Executed successfully.' or
\* 'Failed.'.
C24_EveryFileExecuted == []AllFilesExecuted /\ [][IterationAppends]_vars

\* A file failed and a later file of the same step was still executed.
C24_Witness ==
  /\ outcome["snippets"] = "failure"
  /\ Len(executed) = 2
  /\ executed[1] \in failing
  /\ executed[2] \notin failing
  /\ validation_out.lines[Len(validation_out.lines)].text = "Executed successfully."

\* The container a step starts.
ContainerOf(step) ==
  CASE step = "install" -> {"wheel-validation"}
    [] step = "snippets" -> {"wheel-validation-snippets"}
    [] step = "examples" -> {"wheel-validation-examples"}
    [] OTHER -> {}

\* C25: every container a validation step starts with docker run (wheel-
\* validation, wheel-validation-snippets, wheel-validation-examples) is
\* stopped with docker stop before that step ends, on every path through
\* the step, including the paths where the import or some snippets or
\* examples fail: the container runs while its step runs and no container
\* runs between two steps or after the job.
C25_ContainersStopped ==
  /\ vat = "begin" => containers = {}
  /\ vstep = "end" => containers = {}
  /\ vat \in {"loop", "import"} /\ vstep \in {"install", "snippets", "examples"} =>
       containers = ContainerOf(vstep)

C25_Witness ==
  /\ imported = "false"
  /\ outcome["snippets"] = "success"
  /\ outcome["examples"] = "failure"
  /\ exit_status["examples"] > 0
  /\ containers = {}

\* The import result lines of /tmp/validation.out.
ImportLines ==
  {k \in 1..Len(validation_out.lines) :
     validation_out.lines[k].text \in {"Successfully imported cudaq module.",
                                        "Failed to import cudaq module."}}

\* C26: 'Install wheel in clean environment' appends exactly one import
\* result line to /tmp/validation.out, 'Successfully imported cudaq module.'
\* if import cudaq succeeded in the container and 'Failed to import cudaq
\* module.' otherwise; a failed import alone does not make the step fail
\* (the step fails only when the import is never reached, and then appends
\* no line).
C26_ImportLine ==
  /\ outcome["install"] = "success" =>
       /\ imported \in {"true", "false"}
       /\ Cardinality(ImportLines) = 1
       /\ \A k \in ImportLines :
            validation_out.lines[k].text =
              IF imported = "true" THEN "Successfully imported cudaq module."
              ELSE "Failed to import cudaq module."
  /\ outcome["install"] # "success" => ImportLines = {}
  /\ outcome["install"] = "failure" => imported = "" /\ exit_status["install"] = 1
  /\ imported # "" => outcome["install"] = "success" /\ exit_status["install"] = 0

C26_Witness ==
  /\ imported = "false"
  /\ outcome["install"] = "success"
  /\ exit_status["install"] = 0
  /\ validation_out.lines = <<Line("Failed to import cudaq module.", NoFile)>>

\* The key the claim gives for an option, none for any other word.
KeyOf(option) ==
  CASE option = "--nvqc-backend" -> "backend"
    [] option = "--nvqc-nqpus" -> "nqpus"
    [] option = "--nvqc-ngpus" -> "ngpus"
    [] option = "--nvqc-function-id" -> "function_id"
    [] option = "--nvqc-function-version-id" -> "version_id"
    [] option = "--nvqc-api-key" -> "api_key"
    [] OTHER -> ""

\* The entries of the pairs of args, in argument order.
RECURSIVE Entries(_)
Entries(args) ==
  IF Len(args) < 2 THEN <<>>
  ELSE (IF KeyOf(args[1]) # "" THEN <<";", KeyOf(args[1]), ";", args[2]>> ELSE <<>>)
         \o Entries(SubSeq(args, 3, Len(args)))

\* The arguments the loop has gone through.
Consumed == SubSeq(argv, 1, Len(argv) - Len(positional))

\* C22: for every argument list made of '--<target>-<option> <value>' pairs
\* each recognized option appends ';<key>;<value>' to PLATFORM_EXTRA_ARGS,
\* so that the final PLATFORM_EXTRA_ARGS is the concatenation of these
\* entries in argument order; a pair whose option is not recognized appends
\* nothing.
C22_ExtraArgs ==
  /\ npc \in {"loop", "done"} => PLATFORM_EXTRA_ARGS = Entries(Consumed)
  /\ (npc = "done" /\ Len(argv) % 2 = 0) =>
       /\ positional = <<>>
       /\ PLATFORM_EXTRA_ARGS = Entries(argv)

C22_Witness ==
  /\ npc = "done"
  /\ argv = <<"--nvqc-nqpus", "foo", "--remote-sim-backend", "foo">>
  /\ PLATFORM_EXTRA_ARGS = <<";", "nqpus", ";", "foo">>

\* An iteration consumes exactly two arguments.
ConsumesTwo ==
  (npc = "loop" /\ positional' # positional) =>
    /\ Len(positional) >= 2
    /\ positional' = SubSeq(positional, 3, Len(positional))

\* The loop stops when fewer than two arguments remain, and a last unpaired
\* argument has added nothing.
StopsBelowTwo ==
  /\ npc = "done" =>
       /\ Len(positional) < 2
       /\ Len(positional) = Len(argv) % 2
       /\ PLATFORM_EXTRA_ARGS = Entries(SubSeq(argv, 1, Len(argv) - Len(positional)))
  /\ Len(PLATFORM_EXTRA_ARGS) <= 2 * Len(argv)

\* C30: the argument loop terminates for every finite argument list: each
\* iteration consumes exactly two arguments, the loop stops when fewer than
\* two arguments remain, and a last unpaired argument is never interpreted
\* as an option.
C30_LoopTerminates ==
  /\ <>(npc = "done")
  /\ [][ConsumesTwo]_vars
  /\ []StopsBelowTwo

\* A list whose last, unpaired argument is an option.
C30_Witness ==
  /\ npc = "done"
  /\ argv = <<"--nvqc-backend", "foo", "--nvqc-nqpus">>
  /\ positional = <<"--nvqc-nqpus">>
  /\ PLATFORM_EXTRA_ARGS = <<";", "backend", ";", "foo">>

\* The wheel file name up to its first '-' with every '_' written as '-'.
PackageOf(wheel) ==
  LET dashes == {k \in 1..Len(wheel) : wheel[k] = "-"}
      n == IF dashes = {} THEN Len(wheel)
           ELSE (CHOOSE k \in dashes : \A j \in dashes : k <= j) - 1
  IN [k \in 1..n |-> IF wheel[k] = "_" THEN "-" ELSE wheel[k]]

\* The positions of pip_installs where what is installed.
InstallsOf(what) == {k \in 1..Len(pip_installs) : pip_installs[k].what = what}

\* C21: in the image the build produces the wheel is always installed; the
\* optional dependencies are installed if and only if optional_dependencies
\* is non-empty, after the wheel, as '<package>[<optional_dependencies>]'
\* where <package> is the wheel file name up to its first '-' with every
\* '_' replaced by '-'; the preinstalled modules are installed if and only
\* if preinstalled_modules is non-empty.
C21_WheelAndOptionalDependencies ==
  LET wheel == << <<"/", "t", "m", "p", "/">> \o docker_args.cuda_quantum_wheel >>
      extras == << PackageOf(docker_args.cuda_quantum_wheel) \o <<"[">>
                    \o docker_args.optional_dependencies \o <<"]">> >>
      modules == Words(docker_args.preinstalled_modules)
  IN /\ dpc = "done" =>
          /\ Cardinality(InstallsOf(wheel)) = 1
          /\ \A k \in InstallsOf(wheel) :
               pip_installs[k].flags = docker_args.pip_install_flags
          /\ docker_args.optional_dependencies # <<>> <=> InstallsOf(extras) # {}
          /\ \A k \in InstallsOf(extras) :
               /\ \A w \in InstallsOf(wheel) : w < k
               /\ pip_installs[k].flags = docker_args.pip_install_flags
          /\ docker_args.preinstalled_modules # <<>> <=>
               (modules # <<>> /\ InstallsOf(modules) # {})
          /\ Len(pip_installs) =
               1 + (IF docker_args.optional_dependencies # <<>> THEN 1 ELSE 0)
                 + (IF docker_args.preinstalled_modules # <<>> THEN 1 ELSE 0)
     /\ (InstallsOf(extras) # {} /\ docker_args.cuda_quantum_wheel = ArgDefaults.cuda_quantum_wheel) =>
          \E k \in InstallsOf(extras) :
            pip_installs[k].what = << <<"c", "u", "d", "a", "-", "q", "u", "a", "n", "t", "u", "m", "-", "c", "u", "1", "2", "[", "c", "u", "d", "a", "r", "t", "]">> >>

C21_Witness ==
  /\ dpc = "done"
  /\ docker_args.preinstalled_modules = <<>>
  /\ Len(pip_installs) = 2
  /\ pip_installs[2].what = << <<"c", "u", "d", "a", "-", "q", "u", "a", "n", "t", "u", "m", "[", "c", "u", "d", "a", "r", "t", "]">> >>
  /\ pip_installs[2].flags = <<>>

====
